---------------------------- MODULE Spec2Model ----------------------------
(***************************************************************************)
(* Pytrics: the unit-conversion engine (src/src/converter.py).             *)
(*                                                                         *)
(* Python's float is an IEEE-754 binary64 number.  The model keeps that    *)
(* arithmetic: a float is a sign, an odd integer mantissa of at most       *)
(* Precision bits and a binary exponent, and every operation rounds its    *)
(* exact result to nearest, ties to even, overflowing to infinity and      *)
(* underflowing gradually, as the hardware does.  Mantissas and the exact  *)
(* intermediate results do not fit the model checker's machine integers,   *)
(* so they are kept as natural numbers in limbs (little-endian sequences   *)
(* of digits in base LimbBase).                                            *)
(***************************************************************************)
EXTENDS Integers, Sequences, FiniteSets, TLC

(***************************************************************************)
(* Natural numbers in limbs.  <<>> is zero; the last limb is never zero.   *)
(***************************************************************************)
LimbBits == 14
LimbBase == 2^LimbBits

Max(a, b) == IF a >= b THEN a ELSE b
Min(a, b) == IF a <= b THEN a ELSE b

\* the greatest member of a nonempty set of integers
SetMax(S) == CHOOSE i \in S : \A j \in S : j <= i
SetMin(S) == CHOOSE i \in S : \A j \in S : i <= j

\* a without its leading zero limbs
BNorm(a) ==
    LET S == {i \in 1..Len(a) : a[i] # 0}
    IN  IF S = {} THEN <<>> ELSE SubSeq(a, 1, SetMax(S))

RECURSIVE BFromInt(_)
BFromInt(n) ==
    IF n = 0 THEN <<>> ELSE <<n % LimbBase>> \o BFromInt(n \div LimbBase)

Limb(a, i) == IF i <= Len(a) THEN a[i] ELSE 0

\* carry propagation through the column sums cols[lo..hi], by halves:
\* <<the limbs, the carry out>>.  A column and a carry may be negative
\* (a borrow).
RECURSIVE BCarryRange(_, _, _, _)
BCarryRange(cols, lo, hi, carry) ==
    IF lo > hi THEN <<<<>>, carry>>
    ELSE IF lo = hi
         THEN LET t == cols[lo] + carry
              IN  <<<<t % LimbBase>>, t \div LimbBase>>
    ELSE LET mid == (lo + hi) \div 2
             low == BCarryRange(cols, lo, mid, carry)
             high == BCarryRange(cols, mid + 1, hi, low[2])
         IN  <<low[1] \o high[1], high[2]>>

\* the natural number whose columns are cols (its value is not negative)
BCarry(cols) ==
    LET r == BCarryRange(cols, 1, Len(cols), 0)
    IN  BNorm(r[1] \o BFromInt(r[2]))

BAdd(a, b) ==
    BCarry([i \in 1..Max(Len(a), Len(b)) |-> Limb(a, i) + Limb(b, i)])

\* a - b for a >= b
BSub(a, b) == BCarry([i \in 1..Len(a) |-> a[i] - Limb(b, i)])

\* -1, 0, 1 as a < b, a = b, a > b: decided by the highest limb that differs
BCmp(a, b) ==
    LET S == {i \in 1..Max(Len(a), Len(b)) : Limb(a, i) # Limb(b, i)}
    IN  IF S = {} THEN 0
        ELSE IF Limb(a, SetMax(S)) < Limb(b, SetMax(S)) THEN -1
        ELSE 1

\* a * m for a machine integer 0 <= m < 2^16
BMulSmall(a, m) == BCarry([i \in 1..Len(a) |-> a[i] * m])

\* a * LimbBase^k
BShlLimbs(a, k) == IF a = <<>> THEN <<>> ELSE [i \in 1..k |-> 0] \o a

\* a * (b[lo] + b[lo+1] * LimbBase + ... ) * LimbBase^(lo-1), by halves
RECURSIVE BMulRange(_, _, _, _)
BMulRange(a, b, lo, hi) ==
    IF lo > hi THEN <<>>
    ELSE IF lo = hi THEN BShlLimbs(BMulSmall(a, b[lo]), lo - 1)
    ELSE LET mid == (lo + hi) \div 2
         IN  BAdd(BMulRange(a, b, lo, mid), BMulRange(a, b, mid + 1, hi))

BMul(a, b) == BMulRange(a, b, 1, Len(b))

\* a * 2^k
BShl(a, k) == BShlLimbs(BMulSmall(a, 2^(k % LimbBits)), k \div LimbBits)

\* floor(a / 2^k)
BShr(a, k) ==
    LET q == k \div LimbBits
        r == k % LimbBits
        n == Len(a) - q
    IN  IF n <= 0 THEN <<>>
        ELSE BNorm([i \in 1..n |->
                 (a[i + q] \div 2^r) + (Limb(a, i + q + 1) % 2^r) * 2^(LimbBits - r)])

\* bit i of a, bit 0 the least significant
BBit(a, i) == (Limb(a, (i \div LimbBits) + 1) \div 2^(i % LimbBits)) % 2

\* whether any of the k low bits of a is set
BLowNonzero(a, k) ==
    LET q == k \div LimbBits
        r == k % LimbBits
    IN  \/ \E i \in 1..Min(q, Len(a)) : a[i] # 0
        \/ Limb(a, q + 1) % 2^r # 0

RECURSIVE IntBitLen(_)
IntBitLen(n) == IF n = 0 THEN 0 ELSE 1 + IntBitLen(n \div 2)

BBitLen(a) ==
    IF a = <<>> THEN 0 ELSE (Len(a) - 1) * LimbBits + IntBitLen(a[Len(a)])

RECURSIVE IntTrailingZeros(_)
IntTrailingZeros(n) == IF n % 2 = 1 THEN 0 ELSE 1 + IntTrailingZeros(n \div 2)

\* the number of trailing zero bits of a nonzero a
BTrailingZeros(a) ==
    LET k == SetMin({i \in 1..Len(a) : a[i] # 0})
    IN  (k - 1) * LimbBits + IntTrailingZeros(a[k])

\* 10^k, by squaring
RECURSIVE BPow10(_)
BPow10(k) ==
    IF k = 0 THEN <<1>>
    ELSE LET h == BPow10(k \div 2)
         IN  BMulSmall(BMul(h, h), IF k % 2 = 0 THEN 1 ELSE 10)

\* k steps of binary long division of r by d, for r < 2*d: each step takes
\* the next quotient bit into the machine integer q and doubles the
\* remainder.  <<the k quotient bits, the remainder after them>>
RECURSIVE BDivBits(_, _, _, _)
BDivBits(r, d, q, k) ==
    IF k = 0 THEN <<q, r>>
    ELSE IF BCmp(r, d) >= 0
         THEN BDivBits(BShl(BSub(r, d), 1), d, 2 * q + 1, k - 1)
         ELSE BDivBits(BShl(r, 1), d, 2 * q, k - 1)

\* s is the last step taken (its quotient bits, the remainder after it) and
\* hi the limbs of the quotient above it, least significant first: j more
\* limbs of the quotient below them
RECURSIVE BDivLimbs(_, _, _, _)
BDivLimbs(s, d, hi, j) ==
    IF j = 0 THEN <<BNorm(<<s[1]>> \o hi), s[2]>>
    ELSE BDivLimbs(BDivBits(s[2], d, 0, LimbBits), d, <<s[1]>> \o hi, j - 1)

\* <<floor(n * 2^(j * LimbBits) / d), r>> for n < 2*d, where r = <<>> exactly
\* when the division is exact
BDiv(n, d, j) == BDivLimbs(BDivBits(n, d, 0, 1), d, <<>>, j)

(***************************************************************************)
(* Python float: IEEE-754 binary64.  A finite nonzero float is             *)
(* (-1)^neg * man * 2^exp with man odd, man < 2^Precision, exp >= MinExp   *)
(* and man * 2^exp < 2^MaxExp; zero is man = <<>>, exp = 0 and keeps its   *)
(* sign.  The form is canonical: two floats are the same number (and the   *)
(* same zero) exactly when the records are equal.                          *)
(***************************************************************************)
Precision == 53
MinExp == -1074
MaxExp == 1024
QuotientLimbs == (Precision + 2) \div LimbBits + 1

NaN == [cls |-> "nan", neg |-> FALSE, man |-> <<>>, exp |-> 0]
Inf(neg) == [cls |-> "inf", neg |-> neg, man |-> <<>>, exp |-> 0]
Zero(neg) == [cls |-> "fin", neg |-> neg, man |-> <<>>, exp |-> 0]

\* math.isnan, math.isinf
isnan(x) == x.cls = "nan"
isinf(x) == x.cls = "inf"
IsFinite(x) == x.cls = "fin"
\* x == 0.0 in Python: true of both zeros
IsZero(x) == x.cls = "fin" /\ x.man = <<>>

\* the float of the exact value (-1)^neg * n * 2^e, n within the format
Pack(neg, n, e) ==
    IF n = <<>> THEN Zero(neg)
    ELSE IF BBitLen(n) + e > MaxExp THEN Inf(neg)
    ELSE LET tz == BTrailingZeros(n)
         IN  [cls |-> "fin", neg |-> neg, man |-> BShr(n, tz), exp |-> e + tz]

\* kept with the bits dropped below it rounded in: half is the first dropped
\* bit, rest whether anything lies below that bit
RoundKept(kept, half, rest) ==
    IF half /\ (rest \/ BBit(kept, 0) = 1) THEN BAdd(kept, <<1>>) ELSE kept

\* the float nearest to (-1)^neg * (n + s) * 2^e when the last kept bit is
\* bit sh of n (nothing is dropped when sh <= 0)
RoundAt(neg, n, e, sticky, sh) ==
    Pack(neg,
         IF sh <= 0 THEN n
         ELSE RoundKept(BShr(n, sh), BBit(n, sh - 1) = 1,
                        BLowNonzero(n, sh - 1) \/ sticky),
         IF sh <= 0 THEN e ELSE e + sh)

\* round to nearest, ties to even: the float nearest to (-1)^neg * (n + s) * 2^e,
\* where 0 < s < 1 when sticky and s = 0 otherwise.  The last kept bit has
\* exponent max(e + bitlen(n) - Precision, MinExp): gradual underflow.
Round(neg, n, e, sticky) ==
    RoundAt(neg, n, e, sticky, Max(e + BBitLen(n) - Precision, MinExp) - e)

\* the float nearest to (-1)^neg * (qr[1] + s) * 2^e for a quotient qr[1]
\* with the remainder qr[2]: 0 < s < 1 exactly when the remainder is not zero
RoundDivided(neg, qr, e) == Round(neg, qr[1], e, qr[2] # <<>>)

\* the float nearest to (-1)^neg * (n / d) * 2^e for n, d > 0: n and d are
\* aligned to the same bit length, so that the quotient taken to QuotientLimbs
\* limbs below the binary point has more than Precision + 1 bits
RoundQuotient(neg, n, d, e) ==
    LET ln == BBitLen(n)
        ld == BBitLen(d)
    IN  RoundDivided(neg,
                     BDiv(IF ln < ld THEN BShl(n, ld - ln) ELSE n,
                          IF ld < ln THEN BShl(d, ln - ld) ELSE d,
                          QuotientLimbs),
                     e + (ln - ld) - QuotientLimbs * LimbBits)

FNeg(x) == IF isnan(x) THEN x ELSE [x EXCEPT !.neg = ~x.neg]

\* x * y
FMul(x, y) ==
    LET neg == x.neg # y.neg
    IN  IF isnan(x) \/ isnan(y) THEN NaN
        ELSE IF isinf(x) \/ isinf(y)
             THEN IF IsZero(x) \/ IsZero(y) THEN NaN ELSE Inf(neg)
        ELSE Round(neg, BMul(x.man, y.man), x.exp + y.exp, FALSE)

\* x / y for y # 0 (Python raises ZeroDivisionError for a zero divisor; the
\* engine tests its divisors before it divides)
FDiv(x, y) ==
    LET neg == x.neg # y.neg
    IN  IF isnan(x) \/ isnan(y) THEN NaN
        ELSE IF isinf(x) THEN (IF isinf(y) THEN NaN ELSE Inf(neg))
        ELSE IF isinf(y) \/ IsZero(x) THEN Zero(neg)
        ELSE RoundQuotient(neg, x.man, y.man, x.exp - y.exp)

\* one more than the exponent of the leading bit of a finite nonzero x
Top(x) == BBitLen(x.man) + x.exp

\* (-1)^xneg * a * 2^e + (-1)^yneg * b * 2^e for a, b > 0; +0.0 when the two
\* cancel
FAddAligned(xneg, a, yneg, b, e) ==
    LET c == BCmp(a, b)
    IN  IF xneg # yneg /\ c = 0 THEN Zero(FALSE)
        ELSE Round(IF xneg = yneg \/ c > 0 THEN xneg ELSE yneg,
                   IF xneg = yneg THEN BAdd(a, b)
                   ELSE IF c > 0 THEN BSub(a, b)
                   ELSE BSub(b, a),
                   e, FALSE)

\* x + y.  An operand whose leading bit lies more than Precision + 2 places
\* below the other's is less than a quarter of the other's last place, and
\* the sum rounds to the other operand.
FAdd(x, y) ==
    IF isnan(x) \/ isnan(y) THEN NaN
    ELSE IF isinf(x) THEN (IF isinf(y) /\ x.neg # y.neg THEN NaN ELSE x)
    ELSE IF isinf(y) THEN y
    ELSE IF IsZero(x) /\ IsZero(y) THEN Zero(x.neg /\ y.neg)
    ELSE IF IsZero(x) THEN y
    ELSE IF IsZero(y) THEN x
    ELSE IF Top(x) - Top(y) > Precision + 2 THEN x
    ELSE IF Top(y) - Top(x) > Precision + 2 THEN y
    ELSE LET e == Min(x.exp, y.exp)
         IN  FAddAligned(x.neg, BShl(x.man, x.exp - e),
                         y.neg, BShl(y.man, y.exp - e), e)

\* x - y
FSub(x, y) == FAdd(x, FNeg(y))

\* float("<n>e<k>"), the correctly rounded float of the decimal n * 10^k
\* (n a machine integer): the value of a literal of the source and of a
\* number the user types
Dec(n, k) ==
    IF n = 0 THEN Zero(FALSE)
    ELSE RoundQuotient(n < 0,
                       BMul(BFromInt(IF n < 0 THEN -n ELSE n), BPow10(Max(k, 0))),
                       BPow10(Max(-k, 0)), 0)

\* float(n) for a Python int n (a machine integer): what an int operand of
\* a float operation becomes
FromInt(n) == Round(n < 0, BFromInt(IF n < 0 THEN -n ELSE n), 0, FALSE)


\* m * 2^e <= n * 2^f, exactly: decided by the leading bits when they are at
\* different places
LeqScaled(m, e, n, f) ==
    IF m = <<>> THEN TRUE
    ELSE IF n = <<>> THEN FALSE
    ELSE IF BBitLen(m) + e < BBitLen(n) + f THEN TRUE
    ELSE IF BBitLen(m) + e > BBitLen(n) + f THEN FALSE
    ELSE LET g == Min(e, f)
         IN  BCmp(BShl(m, e - g), BShl(n, f - g)) <= 0

\* abs(x) >= abs(y) and abs(x) < abs(y) as Python compares floats, for a
\* finite y: a comparison with nan is false
AbsGeq(x, y) ==
    /\ ~isnan(x)
    /\ (isinf(x) \/ LeqScaled(y.man, y.exp, x.man, x.exp))
AbsLess(x, y) == IsFinite(x) /\ ~LeqScaled(y.man, y.exp, x.man, x.exp)

(***************************************************************************)
(* Text.  A Python str is a sequence of characters, each a string of       *)
(* length one.                                                             *)
(***************************************************************************)
Digits == <<"0", "1", "2", "3", "4", "5", "6", "7", "8", "9">>

\* str.rstrip(c) for a single character c
rstrip(s, c) ==
    LET S == {i \in 1..Len(s) : s[i] # c}
    IN  IF S = {} THEN <<>> ELSE SubSeq(s, 1, SetMax(S))

\* the n characters c; none when n <= 0
Repeat(c, n) == [i \in 1..Max(n, 0) |-> c]

\* the limbs a[1..i] with rem carried in from above, divided by the machine
\* integer m: <<the quotient's limbs, the remainder>>
RECURSIVE BDivSmallFrom(_, _, _, _)
BDivSmallFrom(a, m, i, rem) ==
    IF i = 0 THEN <<<<>>, rem>>
    ELSE LET cur == rem * LimbBase + a[i]
             rest == BDivSmallFrom(a, m, i - 1, cur % m)
         IN  <<rest[1] \o <<cur \div m>>, rest[2]>>

\* <<floor(a / m), a mod m>> for a machine integer 0 < m < 2^16
BDivSmall(a, m) ==
    LET qr == BDivSmallFrom(a, m, Len(a), 0)
    IN  <<BNorm(qr[1]), qr[2]>>

\* the decimal digits of a, the most significant first; none for zero
RECURSIVE BDecimal(_)
BDecimal(a) ==
    IF a = <<>> THEN <<>>
    ELSE LET qr == BDivSmall(a, 10)
         IN  BDecimal(qr[1]) \o <<Digits[qr[2] + 1]>>

\* the decimal digits of a machine integer n >= 0; none for zero
RECURSIVE IntDecimal(_)
IntDecimal(n) ==
    IF n = 0 THEN <<>> ELSE IntDecimal(n \div 10) \o <<Digits[(n % 10) + 1]>>

\* digits, with zeros in front up to the width n
ZeroPadded(digits, n) == Repeat("0", n - Len(digits)) \o digits

\* the quotient qr[1] with f binary places below the point and the remainder
\* qr[2], rounded to an integer, ties to even
RoundedBits(qr, f) ==
    RoundKept(BShr(qr[1], f), BBit(qr[1], f - 1) = 1,
              BLowNonzero(qr[1], f - 1) \/ qr[2] # <<>>)

\* n / d rounded to an integer, ties to even, for n, d > 0 whose bit lengths
\* differ by delta: the quotient is taken to j limbs, at least two binary
\* places below the point
RoundedAligned(n, d, delta, j) ==
    RoundedBits(BDiv(BShl(n, Max(-delta, 0)), BShl(d, Max(delta, 0)), j),
                j * LimbBits - delta)

\* n / d rounded to an integer, ties to even, for d > 0: the correctly rounded
\* decimal conversion of float formatting
RoundedRatio(n, d) ==
    LET delta == BBitLen(n) - BBitLen(d)
    IN  IF n = <<>> \/ delta < -1 THEN <<>>
        ELSE RoundedAligned(n, d, delta, (Max(delta, 0) + 2) \div LimbBits + 1)

\* abs(x) * 10^p rounded to an integer, ties to even, for a finite x
Scaled(x, p) ==
    RoundedRatio(BMul(BShl(x.man, Max(x.exp, 0)), BPow10(Max(p, 0))),
                 BShl(BPow10(Max(-p, 0)), Max(-x.exp, 0)))

\* 10^e <= abs(x) for a finite nonzero x
Pow10Leq(e, x) ==
    LeqScaled(BPow10(Max(e, 0)), 0, BMul(x.man, BPow10(Max(-e, 0))), x.exp)

\* floor(log10(abs(x))) for a finite nonzero x, from the estimate est that is
\* off by at most one
DecimalExponentNear(x, est) ==
    IF Pow10Leq(est + 1, x) THEN est + 1
    ELSE IF Pow10Leq(est, x) THEN est
    ELSE est - 1

DecimalExponent(x) == DecimalExponentNear(x, ((Top(x) - 1) * 30103) \div 100000)

\* "inf", "-inf", "nan": the text of a float that is not finite
NonFiniteText(x) ==
    IF isnan(x) THEN <<"n", "a", "n">>
    ELSE (IF x.neg THEN <<"-">> ELSE <<>>) \o <<"i", "n", "f">>

\* the text of the float with the decimal digits `digits` (at least 7, the
\* last 6 after the point)
FixedText(neg, digits) ==
    (IF neg THEN <<"-">> ELSE <<>>)
        \o SubSeq(digits, 1, Len(digits) - 6) \o <<".">>
        \o SubSeq(digits, Len(digits) - 5, Len(digits))

\* f"{x:.6f}"
Format6f(x) ==
    IF ~IsFinite(x) THEN NonFiniteText(x)
    ELSE FixedText(x.neg, ZeroPadded(BDecimal(Scaled(x, 6)), 7))

\* the text of the float with the 7 significant digits `digits` and the
\* decimal exponent e: the exponent has a sign and at least two digits
ScientificText(neg, digits, e) ==
    (IF neg THEN <<"-">> ELSE <<>>)
        \o <<digits[1], ".">> \o SubSeq(digits, 2, 7)
        \o <<"e", IF e < 0 THEN "-" ELSE "+">>
        \o ZeroPadded(IntDecimal(IF e < 0 THEN -e ELSE e), 2)

\* the 7 significant digits of x scaled by 10^(6 - e) are `digits`, or the 8
\* digits of 10000000 when the rounding carried into a new digit
ScientificRounded(neg, digits, e) ==
    IF Len(digits) = 8
    THEN ScientificText(neg, SubSeq(digits, 1, 7), e + 1)
    ELSE ScientificText(neg, digits, e)

ScientificAt(x, e) == ScientificRounded(x.neg, BDecimal(Scaled(x, 6 - e)), e)

\* f"{x:.6e}"
Format6e(x) ==
    IF ~IsFinite(x) THEN NonFiniteText(x)
    ELSE IF IsZero(x) THEN ScientificText(x.neg, Repeat("0", 7), 0)
    ELSE ScientificAt(x, DecimalExponent(x))

\* sys.float_info.max and the least positive float, 5e-324
MaxFloat == Pack(FALSE, BSub(BShl(<<1>>, Precision), <<1>>), MaxExp - Precision)
MinFloat == Pack(FALSE, <<1>>, MinExp)

(***************************************************************************)
(* The unit enumerations and the conversion-factor tables.                 *)
(***************************************************************************)
UnitCategory == {"Length", "Weight", "Temperature", "Volume"}

LengthUnit == {"meters", "kilometers", "centimeters", "millimeters",
               "miles", "yards", "feet", "inches"}

WeightUnit == {"kilograms", "grams", "pounds", "ounces", "tons", "metric_tons"}

TemperatureUnit == {"celsius", "fahrenheit", "kelvin"}

VolumeUnit == {"liters", "milliliters", "gallons", "quarts", "pints", "cups",
               "fluid_ounces"}

\* the floats of a table of literals, each literal written <<n, k>> for the
\* decimal n * 10^k
Factors(literals) ==
    [u \in DOMAIN literals |-> Dec(literals[u][1], literals[u][2])]

\* the tables as the source ships them
ShippedLengthToMeters ==
    Factors(
       "meters" :> <<1, 0>>                 \* 1.0
    @@ "kilometers" :> <<1000, 0>>          \* 1000.0
    @@ "centimeters" :> <<1, -2>>           \* 0.01
    @@ "millimeters" :> <<1, -3>>           \* 0.001
    @@ "miles" :> <<1609344, -3>>           \* 1609.344
    @@ "yards" :> <<9144, -4>>              \* 0.9144
    @@ "feet" :> <<3048, -4>>               \* 0.3048
    @@ "inches" :> <<254, -4>>              \* 0.0254
    )

\* WEIGHT_TO_KILOGRAMS with the factor of the base unit written as 1000.0
ShippedWeightToKilogramsBase1000 ==
    Factors(
       "kilograms" :> <<1000, 0>>
    @@ "grams" :> <<1, -3>>
    @@ "pounds" :> <<453592, -6>>
    @@ "ounces" :> <<283495, -7>>
    @@ "tons" :> <<907185, -3>>
    @@ "metric_tons" :> <<1000, 0>>)

ShippedWeightToKilograms ==
    Factors(
       "kilograms" :> <<1, 0>>              \* 1.0
    @@ "grams" :> <<1, -3>>                 \* 0.001
    @@ "pounds" :> <<453592, -6>>           \* 0.453592
    @@ "ounces" :> <<283495, -7>>           \* 0.0283495
    @@ "tons" :> <<907185, -3>>             \* 907.185
    @@ "metric_tons" :> <<1000, 0>>         \* 1000.0
    )

\* VOLUME_TO_LITERS without the entry of VolumeUnit.CUPS
ShippedVolumeToLitersWithoutCups ==
    Factors(
       "liters" :> <<1, 0>>
    @@ "milliliters" :> <<1, -3>>
    @@ "gallons" :> <<378541, -5>>
    @@ "quarts" :> <<946353, -6>>
    @@ "pints" :> <<473176, -6>>
    @@ "fluid_ounces" :> <<295735, -7>>)

ShippedVolumeToLiters ==
    Factors(
       "liters" :> <<1, 0>>                 \* 1.0
    @@ "milliliters" :> <<1, -3>>           \* 0.001
    @@ "gallons" :> <<378541, -5>>          \* 3.78541
    @@ "quarts" :> <<946353, -6>>           \* 0.946353
    @@ "pints" :> <<473176, -6>>            \* 0.473176
    @@ "cups" :> <<236588, -6>>             \* 0.236588
    @@ "fluid_ounces" :> <<295735, -7>>     \* 0.0295735
    )

\* The tables of a build in which the dictionaries have been edited and no
\* longer match the enumerations: two entries of each are deleted and two
\* factors of each are 0.0, the defects the engine's guards are written for.
EditedLengthToMeters ==
    [u \in LengthUnit \ {"miles", "yards"} |->
        IF u \in {"feet", "inches"} THEN Zero(FALSE) ELSE ShippedLengthToMeters[u]]

EditedWeightToKilograms ==
    [u \in WeightUnit \ {"tons", "metric_tons"} |->
        IF u \in {"pounds", "ounces"} THEN Zero(FALSE) ELSE ShippedWeightToKilograms[u]]

EditedVolumeToLiters ==
    [u \in VolumeUnit \ {"cups", "fluid_ounces"} |->
        IF u \in {"quarts", "pints"} THEN Zero(FALSE) ELSE ShippedVolumeToLiters[u]]

(***************************************************************************)
(* State.  The three tables are class attributes of UnitConverter: plain   *)
(* dictionaries, shared by every call.  pc, call and outcome follow one    *)
(* caller through a call of a conversion operation.                        *)
(***************************************************************************)
VARIABLES LENGTH_TO_METERS, WEIGHT_TO_KILOGRAMS, VOLUME_TO_LITERS,
          pc, call, outcome

\* threads: the local variables and the position of each thread that calls
\* the engine concurrently with the others
VARIABLES threads

\* The window, ConverterApp: its category, the two unit combo boxes (their
\* items and the current one), the label, input and output fields, and the
\* message box it has shown last
VARIABLES current_category, from_unit_combo, to_unit_combo,
          label_field, input_field, output_field, dialog

\* The history: the list in memory and the items of the list widget, the
\* newest first; clock is the time of day in seconds, and `added` is every
\* entry added since the history was last empty, the oldest first
VARIABLES conversion_history, history_list, clock, added

\* The theme file on disk and how the last ThemeManager.load_custom_theme ended
VARIABLES theme_file, loaded

\* The window's theme state: dark_mode, custom_theme_path (NoPath for None),
\* the text of the theme button, and how the last of load_custom_theme,
\* toggle_theme and reset_theme ended
VARIABLES dark_mode, custom_theme_path, theme_button, theme_call

\* The caller that converts a value from a unit a to a unit b, the result to a
\* unit c, and the value from a to c directly: how far it has got, the unit a
\* and the result of the two chained conversions
VARIABLES chain

tables == <<LENGTH_TO_METERS, WEIGHT_TO_KILOGRAMS, VOLUME_TO_LITERS>>
caller == <<pc, call, outcome>>
fields == <<current_category, from_unit_combo, to_unit_combo,
            label_field, input_field, output_field, dialog>>
history == <<conversion_history, history_list, clock, added>>
theme_window == <<dark_mode, custom_theme_path, theme_button, theme_call>>
theme == <<theme_file, loaded, theme_window>>
\* what the single caller of the engine leaves alone
others == <<threads, fields, history, theme, chain>>
vars == <<LENGTH_TO_METERS, WEIGHT_TO_KILOGRAMS, VOLUME_TO_LITERS,
          pc, call, outcome, threads,
          current_category, from_unit_combo, to_unit_combo,
          label_field, input_field, output_field, dialog,
          conversion_history, history_list, clock, added,
          theme_file, loaded, chain,
          dark_mode, custom_theme_path, theme_button, theme_call>>

\* the place of a float where there is none
None == [cls |-> "none", neg |-> FALSE, man |-> <<>>, exp |-> 0]

\* how a call ends: `return result` (computed: whether the multiplication
\* and the division were performed), or an exception with the unit or the
\* offending result its message carries
Returned(result, computed) ==
    [kind |-> "return", value |-> result, unit |-> "", computed |-> computed]
Raised(exception, unit) ==
    [kind |-> exception, value |-> None, unit |-> unit, computed |-> FALSE]
RaisedValueError(result) ==
    [kind |-> "ValueError", value |-> result, unit |-> "", computed |-> TRUE]
NoOutcome == [kind |-> "none", value |-> None, unit |-> "", computed |-> FALSE]

\* no message box is open
NoDialog == [kind |-> "none", title |-> ""]

\* the test of the result with math.isinf only
ResultOrValueError_inf_only(result) ==
    IF isinf(result) THEN RaisedValueError(result) ELSE Returned(result, TRUE)

\* the test of the result with math.isnan only
ResultOrValueError_nan_only(result) ==
    IF isnan(result) THEN RaisedValueError(result) ELSE Returned(result, TRUE)

\* the end of each operation: a result that is infinite or not a number
\* raises ValueError, any other is returned
ResultOrValueError(result) ==
    IF isinf(result) \/ isnan(result)
    THEN RaisedValueError(result)
    ELSE Returned(result, TRUE)

\* convert_length without the identity short-circuit of lines 99-100
convert_length_outcome_no_identity(value, from_unit, to_unit) ==
    IF from_unit \notin DOMAIN LENGTH_TO_METERS THEN Raised("KeyError", from_unit)
    ELSE IF to_unit \notin DOMAIN LENGTH_TO_METERS THEN Raised("KeyError", to_unit)
    ELSE LET from_factor == LENGTH_TO_METERS[from_unit]
             to_factor == LENGTH_TO_METERS[to_unit]
         IN  IF IsZero(from_factor) THEN Raised("ZeroDivisionError", from_unit)
             ELSE IF IsZero(to_factor) THEN Raised("ZeroDivisionError", to_unit)
             ELSE LET meters == FMul(value, from_factor)
                      result == FDiv(meters, to_factor)
                  IN  ResultOrValueError(result)

\* convert_length testing only the target factor for zero (lines 112-113 lost)
convert_length_outcome_one_zero_test(value, from_unit, to_unit) ==
    IF from_unit = to_unit THEN Returned(value, FALSE)
    ELSE IF from_unit \notin DOMAIN LENGTH_TO_METERS THEN Raised("KeyError", from_unit)
    ELSE IF to_unit \notin DOMAIN LENGTH_TO_METERS THEN Raised("KeyError", to_unit)
    ELSE LET from_factor == LENGTH_TO_METERS[from_unit]
             to_factor == LENGTH_TO_METERS[to_unit]
         IN  IF IsZero(to_factor) THEN Raised("ZeroDivisionError", to_unit)
             ELSE LET meters == FMul(value, from_factor)
                      result == FDiv(meters, to_factor)
                  IN  ResultOrValueError(result)

\* UnitConverter.convert_length: the outcome of one call
convert_length_outcome(value, from_unit, to_unit) ==
    IF from_unit = to_unit THEN Returned(value, FALSE)
    ELSE IF from_unit \notin DOMAIN LENGTH_TO_METERS THEN Raised("KeyError", from_unit)
    ELSE IF to_unit \notin DOMAIN LENGTH_TO_METERS THEN Raised("KeyError", to_unit)
    ELSE LET from_factor == LENGTH_TO_METERS[from_unit]
             to_factor == LENGTH_TO_METERS[to_unit]
         IN  IF IsZero(from_factor) THEN Raised("ZeroDivisionError", from_unit)
             ELSE IF IsZero(to_factor) THEN Raised("ZeroDivisionError", to_unit)
             ELSE LET meters == FMul(value, from_factor)
                      result == FDiv(meters, to_factor)
                  IN  ResultOrValueError(result)

\* convert_weight reading the table with a default factor of 1.0 for a missing
\* unit (dict.get) instead of testing membership
convert_weight_outcome_default_factor(value, from_unit, to_unit) ==
    IF from_unit = to_unit THEN Returned(value, FALSE)
    ELSE LET from_factor == IF from_unit \in DOMAIN WEIGHT_TO_KILOGRAMS
                            THEN WEIGHT_TO_KILOGRAMS[from_unit] ELSE FromInt(1)
             to_factor == IF to_unit \in DOMAIN WEIGHT_TO_KILOGRAMS
                          THEN WEIGHT_TO_KILOGRAMS[to_unit] ELSE FromInt(1)
         IN  IF IsZero(from_factor) THEN Raised("ZeroDivisionError", from_unit)
             ELSE IF IsZero(to_factor) THEN Raised("ZeroDivisionError", to_unit)
             ELSE LET kilograms == FMul(value, from_factor)
                      result == FDiv(kilograms, to_factor)
                  IN  ResultOrValueError(result)

\* convert_weight with the two factors exchanged
convert_weight_outcome_swapped(value, from_unit, to_unit) ==
    IF from_unit = to_unit THEN Returned(value, FALSE)
    ELSE IF from_unit \notin DOMAIN WEIGHT_TO_KILOGRAMS THEN Raised("KeyError", from_unit)
    ELSE IF to_unit \notin DOMAIN WEIGHT_TO_KILOGRAMS THEN Raised("KeyError", to_unit)
    ELSE LET from_factor == WEIGHT_TO_KILOGRAMS[from_unit]
             to_factor == WEIGHT_TO_KILOGRAMS[to_unit]
         IN  IF IsZero(from_factor) THEN Raised("ZeroDivisionError", from_unit)
             ELSE IF IsZero(to_factor) THEN Raised("ZeroDivisionError", to_unit)
             ELSE LET kilograms == FMul(value, to_factor)
                      result == FDiv(kilograms, from_factor)
                  IN  ResultOrValueError(result)

\* UnitConverter.convert_weight: the outcome of one call
convert_weight_outcome(value, from_unit, to_unit) ==
    IF from_unit = to_unit THEN Returned(value, FALSE)
    ELSE IF from_unit \notin DOMAIN WEIGHT_TO_KILOGRAMS THEN Raised("KeyError", from_unit)
    ELSE IF to_unit \notin DOMAIN WEIGHT_TO_KILOGRAMS THEN Raised("KeyError", to_unit)
    ELSE LET from_factor == WEIGHT_TO_KILOGRAMS[from_unit]
             to_factor == WEIGHT_TO_KILOGRAMS[to_unit]
         IN  IF IsZero(from_factor) THEN Raised("ZeroDivisionError", from_unit)
             ELSE IF IsZero(to_factor) THEN Raised("ZeroDivisionError", to_unit)
             ELSE LET kilograms == FMul(value, from_factor)
                      result == FDiv(kilograms, to_factor)
                  IN  ResultOrValueError(result)

\* the Celsius intermediate taking 273 for the Kelvin offset
to_celsius_kelvin_273(value, from_unit) ==
    IF from_unit = "celsius" THEN value
    ELSE IF from_unit = "fahrenheit"
         THEN FDiv(FMul(FSub(value, FromInt(32)), FromInt(5)), FromInt(9))
    ELSE IF from_unit = "kelvin" THEN FSub(value, FromInt(273))
    ELSE value

\* convert_temperature, "Convert to Celsius first": the value of celsius.  The
\* int operands 32, 5 and 9 become floats.
to_celsius(value, from_unit) ==
    IF from_unit = "celsius" THEN value
    ELSE IF from_unit = "fahrenheit"
         THEN FDiv(FMul(FSub(value, FromInt(32)), FromInt(5)), FromInt(9))
    ELSE IF from_unit = "kelvin" THEN FSub(value, Dec(27315, -2))
    ELSE value

\* the target transform converting Celsius to Fahrenheit without the + 32
from_celsius_no_offset(celsius, to_unit) ==
    IF to_unit = "celsius" THEN celsius
    ELSE IF to_unit = "fahrenheit"
         THEN FDiv(FMul(celsius, FromInt(9)), FromInt(5))
    ELSE IF to_unit = "kelvin" THEN FAdd(celsius, Dec(27315, -2))
    ELSE celsius

\* convert_temperature, "Convert from Celsius to target unit": the value of
\* result
from_celsius(celsius, to_unit) ==
    IF to_unit = "celsius" THEN celsius
    ELSE IF to_unit = "fahrenheit"
         THEN FAdd(FDiv(FMul(celsius, FromInt(9)), FromInt(5)), FromInt(32))
    ELSE IF to_unit = "kelvin" THEN FAdd(celsius, Dec(27315, -2))
    ELSE celsius

\* UnitConverter.convert_temperature: the outcome of one call
convert_temperature_outcome(value, from_unit, to_unit) ==
    IF from_unit = to_unit THEN Returned(value, FALSE)
    ELSE LET celsius == to_celsius(value, from_unit)
             result == from_celsius(celsius, to_unit)
         IN  ResultOrValueError(result)

\* convert_volume dividing the value by the factor of the target unit without
\* taking it to liters first (line 228 lost)
convert_volume_outcome_target_only(value, from_unit, to_unit) ==
    IF from_unit = to_unit THEN Returned(value, FALSE)
    ELSE IF from_unit \notin DOMAIN VOLUME_TO_LITERS THEN Raised("KeyError", from_unit)
    ELSE IF to_unit \notin DOMAIN VOLUME_TO_LITERS THEN Raised("KeyError", to_unit)
    ELSE LET from_factor == VOLUME_TO_LITERS[from_unit]
             to_factor == VOLUME_TO_LITERS[to_unit]
         IN  IF IsZero(from_factor) THEN Raised("ZeroDivisionError", from_unit)
             ELSE IF IsZero(to_factor) THEN Raised("ZeroDivisionError", to_unit)
             ELSE LET result == FDiv(value, to_factor)
                  IN  ResultOrValueError(result)

\* convert_volume looking the target unit up before the source unit and
\* testing the target factor before the source factor
convert_volume_outcome_target_first(value, from_unit, to_unit) ==
    IF from_unit = to_unit THEN Returned(value, FALSE)
    ELSE IF to_unit \notin DOMAIN VOLUME_TO_LITERS THEN Raised("KeyError", to_unit)
    ELSE IF from_unit \notin DOMAIN VOLUME_TO_LITERS THEN Raised("KeyError", from_unit)
    ELSE LET from_factor == VOLUME_TO_LITERS[from_unit]
             to_factor == VOLUME_TO_LITERS[to_unit]
         IN  IF IsZero(to_factor) THEN Raised("ZeroDivisionError", to_unit)
             ELSE IF IsZero(from_factor) THEN Raised("ZeroDivisionError", from_unit)
             ELSE LET liters == FMul(value, from_factor)
                      result == FDiv(liters, to_factor)
                  IN  ResultOrValueError(result)

\* UnitConverter.convert_volume: the outcome of one call
convert_volume_outcome(value, from_unit, to_unit) ==
    IF from_unit = to_unit THEN Returned(value, FALSE)
    ELSE IF from_unit \notin DOMAIN VOLUME_TO_LITERS THEN Raised("KeyError", from_unit)
    ELSE IF to_unit \notin DOMAIN VOLUME_TO_LITERS THEN Raised("KeyError", to_unit)
    ELSE LET from_factor == VOLUME_TO_LITERS[from_unit]
             to_factor == VOLUME_TO_LITERS[to_unit]
         IN  IF IsZero(from_factor) THEN Raised("ZeroDivisionError", from_unit)
             ELSE IF IsZero(to_factor) THEN Raised("ZeroDivisionError", to_unit)
             ELSE LET liters == FMul(value, from_factor)
                      result == FDiv(liters, to_factor)
                  IN  ResultOrValueError(result)

(***************************************************************************)
(* Concurrent callers.  The operations are static methods with no lock:    *)
(* each thread runs the statements of its call on its own local variables  *)
(* and reads the shared tables; the statements of different threads        *)
(* interleave in any order.                                                *)
(***************************************************************************)
Threads == {1, 2}

\* the calls the threads make: (operation, value, from_unit, to_unit)
ThreadCalls ==
    {<<"convert_length", Dec(1609344, -3), "meters", "miles">>,
     <<"convert_length", MaxFloat, "kilometers", "meters">>,
     <<"convert_length", FromInt(1), "feet", "inches">>,
     <<"convert_weight", FromInt(1), "kilograms", "kilograms">>,
     <<"convert_weight", FromInt(1), "pounds", "kilograms">>,
     <<"convert_temperature", FromInt(100), "celsius", "fahrenheit">>,
     <<"convert_temperature", NaN, "kelvin", "celsius">>,
     <<"convert_volume", FromInt(1), "gallons", "liters">>}

\* a thread outside a call
ThreadAtRest ==
    [pc |-> "idle", op |-> "", value |-> None, from_unit |-> "", to_unit |-> "",
     from_factor |-> None, to_factor |-> None, base |-> None, result |-> None,
     outcome |-> NoOutcome]

\* the table an operation reads
FactorsOf(op) ==
    CASE op = "convert_length" -> LENGTH_TO_METERS
      [] op = "convert_weight" -> WEIGHT_TO_KILOGRAMS
      [] op = "convert_volume" -> VOLUME_TO_LITERS

\* thread t takes a step that leaves its locals as in `locals`
ThreadStep(t, locals) ==
    /\ threads' = [threads EXCEPT ![t] = locals]
    /\ UNCHANGED <<tables, caller, fields, history, theme, chain>>

\* thread t calls an operation
thread_call(t) ==
    /\ threads[t].pc = "idle"
    /\ \E c \in ThreadCalls :
          ThreadStep(t, [ThreadAtRest EXCEPT !.pc = "units", !.op = c[1],
                            !.value = c[2], !.from_unit = c[3], !.to_unit = c[4]])

\* `if from_unit == to_unit: return value`, and in a linear operation the two
\* membership tests
thread_units(t) ==
    LET my == threads[t]
    IN  /\ my.pc = "units"
        /\ ThreadStep(t,
              IF my.from_unit = my.to_unit
              THEN [my EXCEPT !.pc = "done", !.outcome = Returned(my.value, FALSE)]
              ELSE IF my.op = "convert_temperature"
              THEN [my EXCEPT !.pc = "to_celsius"]
              ELSE IF my.from_unit \notin DOMAIN FactorsOf(my.op)
              THEN [my EXCEPT !.pc = "done",
                              !.outcome = Raised("KeyError", my.from_unit)]
              ELSE IF my.to_unit \notin DOMAIN FactorsOf(my.op)
              THEN [my EXCEPT !.pc = "done",
                              !.outcome = Raised("KeyError", my.to_unit)]
              ELSE [my EXCEPT !.pc = "factors"])

\* the two reads of the shared table and the two tests for a zero factor
thread_factors(t) ==
    LET my == threads[t]
        from_factor == FactorsOf(my.op)[my.from_unit]
        to_factor == FactorsOf(my.op)[my.to_unit]
    IN  /\ my.pc = "factors"
        /\ ThreadStep(t,
              IF IsZero(from_factor)
              THEN [my EXCEPT !.pc = "done",
                              !.outcome = Raised("ZeroDivisionError", my.from_unit)]
              ELSE IF IsZero(to_factor)
              THEN [my EXCEPT !.pc = "done",
                              !.outcome = Raised("ZeroDivisionError", my.to_unit)]
              ELSE [my EXCEPT !.pc = "multiply", !.from_factor = from_factor,
                              !.to_factor = to_factor])

\* meters = value * from_factor (kilograms, liters)
thread_multiply(t) ==
    LET my == threads[t]
    IN  /\ my.pc = "multiply"
        /\ ThreadStep(t, [my EXCEPT !.pc = "divide",
                                    !.base = FMul(my.value, my.from_factor)])

\* thread_divide writing its result into the shared table as the factor of the
\* target unit
thread_divide_storing(t) ==
    LET my == threads[t]
        result == FDiv(my.base, my.to_factor)
    IN  /\ my.pc = "divide"
        /\ threads' = [threads EXCEPT ![t] = [my EXCEPT !.pc = "check",
                                                        !.result = result]]
        /\ LENGTH_TO_METERS' =
              IF my.op = "convert_length"
              THEN (my.to_unit :> result) @@ LENGTH_TO_METERS
              ELSE LENGTH_TO_METERS
        /\ WEIGHT_TO_KILOGRAMS' =
              IF my.op = "convert_weight"
              THEN (my.to_unit :> result) @@ WEIGHT_TO_KILOGRAMS
              ELSE WEIGHT_TO_KILOGRAMS
        /\ VOLUME_TO_LITERS' =
              IF my.op = "convert_volume"
              THEN (my.to_unit :> result) @@ VOLUME_TO_LITERS
              ELSE VOLUME_TO_LITERS
        /\ UNCHANGED <<caller, fields, history, theme, chain>>

\* result = meters / to_factor
thread_divide(t) ==
    LET my == threads[t]
    IN  /\ my.pc = "divide"
        /\ ThreadStep(t, [my EXCEPT !.pc = "check",
                                    !.result = FDiv(my.base, my.to_factor)])

\* convert_temperature: the assignment of celsius
thread_to_celsius(t) ==
    LET my == threads[t]
    IN  /\ my.pc = "to_celsius"
        /\ ThreadStep(t, [my EXCEPT !.pc = "from_celsius",
                                    !.base = to_celsius(my.value, my.from_unit)])

\* convert_temperature: the assignment of result
thread_from_celsius(t) ==
    LET my == threads[t]
    IN  /\ my.pc = "from_celsius"
        /\ ThreadStep(t, [my EXCEPT !.pc = "check",
                                    !.result = from_celsius(my.base, my.to_unit)])

\* the test of the result, and the return
thread_check(t) ==
    LET my == threads[t]
    IN  /\ my.pc = "check"
        /\ ThreadStep(t, [my EXCEPT !.pc = "done",
                                    !.outcome = ResultOrValueError(my.result)])

\* the thread's caller has the outcome
thread_return(t) ==
    /\ threads[t].pc = "done"
    /\ ThreadStep(t, ThreadAtRest)

NextThreads ==
    \E t \in Threads :
        \/ thread_call(t)
        \/ thread_units(t)
        \/ thread_factors(t)
        \/ thread_multiply(t)
        \/ thread_divide(t)
        \/ thread_to_celsius(t)
        \/ thread_from_celsius(t)
        \/ thread_check(t)
        \/ thread_return(t)

(***************************************************************************)
(* The conversion history of the window (main.py).                         *)
(***************************************************************************)
\* abs(x) >= 1e6 or (abs(x) < 1e-3 and x != 0): the test that selects the
\* scientific notation
UsesScientific(x) ==
    AbsGeq(x, Dec(1, 6)) \/ (AbsLess(x, Dec(1, -3)) /\ ~IsZero(x))

\* always the fixed notation
formatted_fixed_only(x) == rstrip(rstrip(Format6f(x), "0"), ".")

\* the text shown for a float: f"{x:.6e}" or f"{x:.6f}", then
\* .rstrip('0').rstrip('.')
formatted(x) ==
    rstrip(rstrip(IF UsesScientific(x) THEN Format6e(x) ELSE Format6f(x), "0"),
           ".")

\* str.strip(): without the whitespace at both ends
Whitespace == {" ", "\t", "\n", "\r"}
strip(s) ==
    LET S == {i \in 1..Len(s) : s[i] \notin Whitespace}
    IN  IF S = {} THEN <<>> ELSE SubSeq(s, SetMin(S), SetMax(S))

\* datetime.now().strftime("%H:%M:%S") at t seconds after midnight
TwoDigits(n) == ZeroPadded(IntDecimal(n), 2)
strftime(t) ==
    TwoDigits(t \div 3600) \o <<":">> \o TwoDigits((t \div 60) % 60)
        \o <<":">> \o TwoDigits(t % 60)

\* the history entry: the parts that the f-string joins, in its order,
\* f"[{timestamp}]{label_part} {formatted_value} {from_unit} → {formatted_result} {to_unit} ({category})"
history_entry(timestamp, label, value, from_unit, result, to_unit, category) ==
    [timestamp |-> timestamp,
     label_part |-> IF strip(label) # <<>>
                    THEN <<" ", "[">> \o label \o <<"]">> ELSE <<>>,
     formatted_value |-> formatted(value),
     from_unit |-> from_unit,
     formatted_result |-> formatted(result),
     to_unit |-> to_unit,
     category |-> category]

\* list.insert(0, entry), QListWidget.insertItem(0, item)
insert(list, entry) == <<entry>> \o list

\* the eviction removing the newest entry
pop_first(list) == Tail(list)
\* no eviction
pop_nothing(list) == list

\* list.pop(), QListWidget.takeItem(count - 1): without the last
pop(list) == SubSeq(list, 1, Len(list) - 1)

\* add_to_history never taking an item from the list widget (line 576 lost)
add_entry_widget_kept(entry) ==
    /\ conversion_history' =
          IF Len(conversion_history) + 1 > 50
          THEN pop(insert(conversion_history, entry))
          ELSE insert(conversion_history, entry)
    /\ history_list' = insert(history_list, entry)
    /\ added' = Append(added, entry)
    /\ UNCHANGED clock

\* add_to_history once the entry is built: it goes in front of both lists,
\* and both lose their last when the list in memory has more than 50
add_entry(entry) ==
    /\ conversion_history' =
          IF Len(conversion_history) + 1 > 50
          THEN pop(insert(conversion_history, entry))
          ELSE insert(conversion_history, entry)
    /\ history_list' =
          IF Len(conversion_history) + 1 > 50
          THEN pop(insert(history_list, entry))
          ELSE insert(history_list, entry)
    /\ added' = Append(added, entry)
    /\ UNCHANGED clock

add_to_history(value, from_unit, to_unit, result, category, label) ==
    add_entry(history_entry(strftime(clock), label, value, from_unit, result,
                            to_unit, category))

clear_history ==
    /\ conversion_history' = <<>>
    /\ history_list' = <<>>
    /\ added' = <<>>
    /\ UNCHANGED clock

\* the conversions recorded when the history is exercised alone
MaxAdds == 52
MaxClock == 1
HistoryCalls ==
    {[value |-> FromInt(1), from_unit |-> "kilometers", to_unit |-> "meters",
      result |-> FromInt(1000), category |-> "Length",
      label |-> <<"W", "i", "d", "t", "h">>]}

\* a conversion is recorded
Record ==
    /\ Len(added) < MaxAdds
    /\ \E c \in HistoryCalls :
          add_to_history(c.value, c.from_unit, c.to_unit, c.result,
                         c.category, c.label)
    /\ UNCHANGED <<tables, caller, threads, fields, theme, chain>>

\* the Clear History button
ClearHistory ==
    /\ dialog = NoDialog
    /\ clear_history
    /\ UNCHANGED <<tables, caller, threads, fields, theme, chain>>

\* a second passes
Tick ==
    /\ clock < MaxClock
    /\ clock' = clock + 1
    /\ UNCHANGED <<conversion_history, history_list, added>>
    /\ UNCHANGED <<tables, caller, threads, fields, theme, chain>>

NextHistory == Record \/ ClearHistory \/ Tick

(***************************************************************************)
(* Theme files (theme.py).  A JSON value is a record of its type and its   *)
(* content: b for a boolean, n for a number, s for the characters of a      *)
(* string, items for an array, and for an object its members, the pairs    *)
(* <<name, value>> in the order of the document, which is the order of the *)
(* dict that json.load returns.                                            *)
(***************************************************************************)
JsonValue(type, b, n, s, items, members) ==
    [type |-> type, b |-> b, n |-> n, s |-> s, items |-> items,
     members |-> members]
JsonNull == JsonValue("null", FALSE, 0, <<>>, <<>>, <<>>)
JsonBool(b) == JsonValue("bool", b, 0, <<>>, <<>>, <<>>)
JsonNumber(n) == JsonValue("number", FALSE, n, <<>>, <<>>, <<>>)
JsonString(chars) == JsonValue("string", FALSE, 0, chars, <<>>, <<>>)
JsonArray(items) == JsonValue("array", FALSE, 0, <<>>, items, <<>>)
JsonObject(members) == JsonValue("object", FALSE, 0, <<>>, <<>>, members)

\* dict: the keys, and the value of a key that is there
Keys(members) == {members[i][1] : i \in 1..Len(members)}
Get(members, name) ==
    members[CHOOSE i \in 1..Len(members) : members[i][1] = name][2]

\* needle in hay, for two strings
Contains(hay, needle) ==
    \E i \in 0..(Len(hay) - Len(needle)) :
        SubSeq(hay, i + 1, i + Len(needle)) = needle

required_colors == {"primary", "secondary", "neutral", "accent", "status"}

\* the characters of the five names
NameChars ==
    [primary |-> <<"p", "r", "i", "m", "a", "r", "y">>,
     secondary |-> <<"s", "e", "c", "o", "n", "d", "a", "r", "y">>,
     neutral |-> <<"n", "e", "u", "t", "r", "a", "l">>,
     accent |-> <<"a", "c", "c", "e", "n", "t">>,
     status |-> <<"s", "t", "a", "t", "u", "s">>]

\* `color in theme_data` for a list, a string or a dict; int, float, bool and
\* None are not iterable and `in` raises TypeError
IsContainer(theme_data) == theme_data.type \in {"array", "string", "object"}
In(color, theme_data) ==
    CASE theme_data.type = "object" -> color \in Keys(theme_data.members)
      [] theme_data.type = "array" ->
            \E i \in 1..Len(theme_data.items) :
                /\ theme_data.items[i].type = "string"
                /\ theme_data.items[i].s = NameChars[color]
      [] theme_data.type = "string" -> Contains(theme_data.s, NameChars[color])

\* `not value`: None, False, 0, "", [] and {} are false
Falsy(value) ==
    CASE value.type = "null" -> TRUE
      [] value.type = "bool" -> ~value.b
      [] value.type = "number" -> value.n = 0
      [] value.type = "string" -> value.s = <<>>
      [] value.type = "array" -> value.items = <<>>
      [] value.type = "object" -> value.members = <<>>

HexDigits == {"0", "1", "2", "3", "4", "5", "6", "7", "8", "9",
              "a", "b", "c", "d", "e", "f", "A", "B", "C", "D", "E", "F"}

\* the digits part of an int literal: digits, possibly with single
\* underscores between them
IsDigitsPart(b) ==
    /\ b # <<>>
    /\ b[1] # "_"
    /\ b[Len(b)] # "_"
    /\ \A i \in 1..Len(b) : b[i] \in HexDigits \cup {"_"}
    /\ \A i \in 1..(Len(b) - 1) : ~(b[i] = "_" /\ b[i + 1] = "_")

\* after the sign: an optional 0x or 0X, that one underscore may follow
WithoutPrefix(u) ==
    IF Len(u) >= 2 /\ u[1] = "0" /\ u[2] \in {"x", "X"}
    THEN (IF Len(u) >= 3 /\ u[3] = "_"
          THEN SubSeq(u, 4, Len(u)) ELSE SubSeq(u, 3, Len(u)))
    ELSE u

\* after the whitespace is stripped: an optional sign
WithoutSign(s) == IF s # <<>> /\ s[1] \in {"+", "-"} THEN Tail(s) ELSE s

\* int(text, 16) returns rather than raising ValueError
IntBase16Accepts(text) == IsDigitsPart(WithoutPrefix(WithoutSign(strip(text))))

\* the checks of one required color, lines 107-119
IsValidColor(value) ==
    /\ ~Falsy(value)
    /\ value.type = "string"
    /\ value.s[1] = "#"
    /\ Len(value.s) = 7
    /\ IntBase16Accepts(SubSeq(value.s, 2, 7))

\* how a load ends
ReturnedNone == [kind |-> "None", theme |-> <<>>]
ReturnedTheme(theme_data) == [kind |-> "theme", theme |-> theme_data.members]
RaisedError(exception) == [kind |-> exception, theme |-> <<>>]

\* lines 99-120 on the value that json.load returned
validated(theme_data) ==
    IF ~IsContainer(theme_data) THEN RaisedError("TypeError")
    ELSE IF \E color \in required_colors : ~In(color, theme_data)
    THEN ReturnedNone
    ELSE IF theme_data.type # "object" THEN RaisedError("AttributeError")
    ELSE IF \E color \in required_colors :
                ~IsValidColor(Get(theme_data.members, color))
    THEN ReturnedNone
    ELSE ReturnedTheme(theme_data)

\* ThemeManager.load_custom_theme(file_path) when the file is `file`: no file;
\* a file that open() or read() fails on with an OSError; bytes that are not
\* UTF-8; text that is not JSON; a JSON document
ThemeManager_load_custom_theme(file) ==
    CASE file.kind = "missing" -> ReturnedNone
      [] file.kind = "unreadable" -> ReturnedNone
      [] file.kind = "not_utf8" -> RaisedError("UnicodeDecodeError")
      [] file.kind = "malformed" -> ReturnedNone
      [] file.kind = "json" -> validated(file.json)

\* the theme files tried
File(kind) == [kind |-> kind, json |-> JsonNull]
Json(value) == [kind |-> "json", json |-> value]

DEFAULT_COLORS ==
    <<<<"primary", JsonString(<<"#", "6", "6", "7", "e", "e", "a">>)>>,
     <<"secondary", JsonString(<<"#", "7", "6", "4", "b", "a", "2">>)>>,
     <<"neutral", JsonString(<<"#", "4", "a", "5", "5", "6", "8">>)>>,
     <<"accent", JsonString(<<"#", "4", "8", "b", "b", "7", "8">>)>>,
     <<"status", JsonString(<<"#", "f", "f", "f", "f", "f", "f">>)>>>>

\* the members with the value of one replaced, and without one
With(members, name, value) ==
    [i \in 1..Len(members) |->
        IF members[i][1] = name THEN <<name, value>> ELSE members[i]]
Without(members, name) ==
    SelectSeq(members, LAMBDA member : member[1] # name)

\* the values tried for one color
ColorTexts ==
    {<<>>,
     <<"#", "1", "a", "2", "B", "3", "c">>,
     <<"1", "a", "2", "B", "3", "c", "7">>,
     <<"#", "1", "2", "3", "4", "5">>,
     <<"#", "1", "2", "3", "4", "5", "6", "7">>,
     <<"#", "1", "2", "3", "4", "5", "g">>,
     <<"#", "+", "1", "2", "3", "4", "5">>,
     <<"#", "-", "1", "2", "3", "4", "f">>,
     <<"#", "0", "x", "1", "2", "a", "b">>,
     <<"#", "0", "X", "_", "1", "a", "B">>,
     <<"#", "1", "2", "_", "3", "4", "5">>,
     <<"#", "_", "1", "2", "3", "4", "5">>,
     <<"#", " ", "1", "2", "3", "4", "5">>,
     <<"#", "1", "2", "3", "4", " ">>,
     <<"#", "0", "x", "_", "1", "2", "_">>}
ColorValues ==
    {JsonString(t) : t \in ColorTexts}
        \cup {JsonNull, JsonBool(TRUE), JsonNumber(0), JsonNumber(5),
              JsonArray(<<>>), JsonArray(<<JsonString(<<"#", "4", "8", "b", "b", "7", "8">>)>>)}

Documents ==
    {JsonNull, JsonBool(TRUE), JsonNumber(5), JsonString(<<>>),
     JsonString(<<"p", "r", "i", "m", "a", "r", "y">> \o <<" ">> \o <<"s", "e", "c", "o", "n", "d", "a", "r", "y">> \o <<" ">> \o <<"n", "e", "u", "t", "r", "a", "l">>
                    \o <<" ">> \o <<"a", "c", "c", "e", "n", "t">> \o <<" ">> \o <<"s", "t", "a", "t", "u", "s">>),
     JsonArray(<<>>),
     JsonArray(<<JsonString(<<"p", "r", "i", "m", "a", "r", "y">>), JsonString(<<"s", "e", "c", "o", "n", "d", "a", "r", "y">>),
                 JsonString(<<"n", "e", "u", "t", "r", "a", "l">>), JsonString(<<"a", "c", "c", "e", "n", "t">>),
                 JsonString(<<"s", "t", "a", "t", "u", "s">>)>>),
     JsonObject(<<>>),
     JsonObject(Append(DEFAULT_COLORS, <<"name", JsonNumber(5)>>))}
        \cup {JsonObject(With(DEFAULT_COLORS, color, value)) :
                  color \in required_colors, value \in ColorValues}
        \cup {JsonObject(Without(DEFAULT_COLORS, color)) :
                  color \in required_colors}

ThemeFiles ==
    {File("missing"), File("unreadable"), File("not_utf8"), File("malformed")}
        \cup {Json(value) : value \in Documents}

\* the user saves a theme file
WriteThemeFile ==
    /\ \E file \in ThemeFiles : theme_file' = file
    /\ UNCHANGED <<loaded, theme_window>>
    /\ UNCHANGED <<tables, caller, threads, fields, history, chain>>

\* the theme file is loaded
LoadTheme ==
    /\ loaded' = [file |-> theme_file,
                  outcome |-> ThemeManager_load_custom_theme(theme_file)]
    /\ UNCHANGED <<theme_file, theme_window>>
    /\ UNCHANGED <<tables, caller, threads, fields, history, chain>>

NextTheme == WriteThemeFile \/ LoadTheme

(***************************************************************************)
(* The window's theme handlers (main.py) and the stylesheets they ask      *)
(* ThemeManager for.  A stylesheet is text that nothing reads back: of     *)
(* each function that builds one the model keeps whether it raises.        *)
(***************************************************************************)
\* self.custom_theme_path: None, or the path of the theme file
NoPath == ""
ThemePath == "theme.json"

\* the text the theme button is given for a mode, lines 456-457 and 476
ButtonText(dark) == IF dark THEN "Dark Mode" ELSE "Light Mode"

\* str.lstrip(c)
lstrip(s, c) ==
    LET S == {i \in 1..Len(s) : s[i] # c}
    IN  IF S = {} THEN <<>> ELSE SubSeq(s, SetMin(S), Len(s))

\* ThemeManager._adjust_brightness(color, factor) returns: the color is a
\* non-empty string that starts with #, has 6 characters after its leading
\* #s, and each pair of them is accepted by int(pair, 16)
AdjustsBrightness(color) ==
    /\ ~Falsy(color)
    /\ color.type = "string"
    /\ color.s[1] = "#"
    /\ Len(lstrip(color.s, "#")) = 6
    /\ \A i \in {1, 3, 5} :
          IntBase16Accepts(SubSeq(lstrip(color.s, "#"), i, i + 1))

\* colors.get(name, DEFAULT_COLORS[name])
GetColor(colors, name) ==
    IF name \in Keys(colors) THEN Get(colors, name) ELSE Get(DEFAULT_COLORS, name)

\* how ThemeManager.get_custom_stylesheet(colors, is_dark) ends: it adjusts
\* the accent and the primary color and raises ValueError if either fails
get_custom_stylesheet(colors) ==
    IF AdjustsBrightness(GetColor(colors, "accent"))
          /\ AdjustsBrightness(GetColor(colors, "primary"))
    THEN "None" ELSE "ValueError"

\* the file at a path
FileAt(path) == IF path = ThemePath THEN theme_file ELSE File("missing")

\* how ThemeManager.get_stylesheet(dark_mode, custom_theme_path) ends, given
\* how the load of the custom theme ended: the dark and the light stylesheet
\* are built from colors that are valid
get_stylesheet_of(custom_colors) ==
    CASE custom_colors.kind = "theme" -> get_custom_stylesheet(custom_colors.theme)
      [] custom_colors.kind = "None" -> "None"
      [] OTHER -> custom_colors.kind
get_stylesheet(path) ==
    IF path = NoPath THEN "None"
    ELSE get_stylesheet_of(ThemeManager_load_custom_theme(FileAt(path)))

\* how apply_theme ends for a custom_theme_path: what raises in it is
\* get_stylesheet, its first statement
apply_theme(path) == get_stylesheet(path)

\* lines 446-447: True is returned if apply_theme returns
returned_true_after(applied) == IF applied = "None" THEN "True" ELSE applied

\* UnitConverterApp.load_custom_theme(file_path) given how
\* ThemeManager.load_custom_theme ended: the path is kept and True returned
\* when the theme loaded and its stylesheet can be built
load_custom_theme_of(file_path, theme_data) ==
    IF theme_data.kind = "theme"
    THEN IF get_custom_stylesheet(theme_data.theme) = "ValueError"
         THEN /\ theme_call' = "ValueError"
              /\ UNCHANGED custom_theme_path
         ELSE /\ custom_theme_path' = file_path
              /\ theme_call' = returned_true_after(apply_theme(file_path))
    ELSE /\ theme_call' = IF theme_data.kind = "None" THEN "False"
                          ELSE theme_data.kind
         /\ UNCHANGED custom_theme_path

load_custom_theme(file_path) ==
    /\ load_custom_theme_of(file_path,
                            ThemeManager_load_custom_theme(FileAt(file_path)))
    /\ theme_button' = IF theme_call' = "True" THEN ButtonText(dark_mode)
                       ELSE theme_button
    /\ UNCHANGED dark_mode

\* QMessageBox.warning and QMessageBox.critical: the box stays open until the
\* user closes it
Warning(title) == [kind |-> "warning", title |-> title]
Critical(title) == [kind |-> "critical", title |-> title]
Information(title) == [kind |-> "information", title |-> title]

\* load_custom_theme_dialog once the file dialog has returned the path
load_custom_theme_dialog(file_path) ==
    /\ load_custom_theme(file_path)
    /\ dialog' = CASE theme_call' = "True" -> Information("Theme Loaded")
                   [] theme_call' = "False" -> Warning("Invalid Theme")
                   [] OTHER -> Critical("Theme Error")

\* toggle_theme that sets the button and leaves the mode (line 455 lost)
toggle_theme_mode_kept ==
    /\ theme_button' = ButtonText(~dark_mode)
    /\ theme_call' = apply_theme(custom_theme_path)
    /\ UNCHANGED <<dark_mode, custom_theme_path>>

\* toggle_theme: the mode is inverted and the button set, then apply_theme
toggle_theme ==
    /\ dark_mode' = ~dark_mode
    /\ theme_button' = ButtonText(~dark_mode)
    /\ theme_call' = apply_theme(custom_theme_path)
    /\ UNCHANGED custom_theme_path

\* reset_theme: the path is forgotten, then apply_theme and a message box
reset_theme ==
    /\ custom_theme_path' = NoPath
    /\ theme_button' = ButtonText(dark_mode)
    /\ theme_call' = apply_theme(NoPath)
    /\ dialog' = Information("Theme Reset")
    /\ UNCHANGED dark_mode

\* what the theme handlers leave alone
OutsideTheme ==
    <<tables, caller, threads, history, chain, theme_file, loaded,
      current_category, from_unit_combo, to_unit_combo, label_field,
      input_field, output_field>>

\* Theme > Load Custom Theme, with the theme file picked
LoadCustomTheme ==
    /\ dialog = NoDialog
    /\ load_custom_theme_dialog(ThemePath)
    /\ UNCHANGED OutsideTheme

\* the theme button
ToggleTheme ==
    /\ dialog = NoDialog
    /\ toggle_theme
    /\ UNCHANGED <<OutsideTheme, dialog>>

\* Theme > Reset to Default
ResetTheme ==
    /\ dialog = NoDialog
    /\ reset_theme
    /\ UNCHANGED OutsideTheme

\* one conversion recorded while the themes are tried
MaxThemeAdds == 1
RecordOnce == Len(added) < MaxThemeAdds /\ Record

(***************************************************************************)
(* The window's Convert handler (main.py): reading the number.             *)
(***************************************************************************)
\* str.lower() on ASCII
LowerCase ==
    "A" :> "a" @@ "B" :> "b" @@ "C" :> "c" @@ "D" :> "d" @@ "E" :> "e" @@ "F" :> "f"
    @@ "G" :> "g" @@ "H" :> "h" @@ "I" :> "i" @@ "J" :> "j" @@ "K" :> "k" @@ "L" :> "l"
    @@ "M" :> "m" @@ "N" :> "n" @@ "O" :> "o" @@ "P" :> "p" @@ "Q" :> "q" @@ "R" :> "r"
    @@ "S" :> "s" @@ "T" :> "t" @@ "U" :> "u" @@ "V" :> "v" @@ "W" :> "w" @@ "X" :> "x"
    @@ "Y" :> "y" @@ "Z" :> "z"
lower(s) ==
    [i \in 1..Len(s) |-> IF s[i] \in DOMAIN LowerCase THEN LowerCase[s[i]] ELSE s[i]]

\* str.split('\n')[0]: up to the first newline
FirstLine(s) ==
    LET S == {i \in 1..Len(s) : s[i] = "\n"}
    IN  IF S = {} THEN s ELSE SubSeq(s, 1, SetMin(S) - 1)

DecimalDigits == {"0", "1", "2", "3", "4", "5", "6", "7", "8", "9"}

\* a run of decimal digits, possibly with single underscores between them
IsDigitRun(b) ==
    /\ b # <<>>
    /\ b[1] # "_"
    /\ b[Len(b)] # "_"
    /\ \A i \in 1..Len(b) : b[i] \in DecimalDigits \cup {"_"}
    /\ \A i \in 1..(Len(b) - 1) : ~(b[i] = "_" /\ b[i + 1] = "_")

\* the number a run of digits denotes, a machine integer
RECURSIVE DigitsValue(_, _)
DigitsValue(b, acc) ==
    IF b = <<>> THEN acc
    ELSE IF b[1] = "_" THEN DigitsValue(Tail(b), acc)
    ELSE DigitsValue(Tail(b),
                     10 * acc + (CHOOSE d \in 0..9 : Digits[d + 1] = b[1]))

CountDigits(b) == Cardinality({i \in 1..Len(b) : b[i] # "_"})

\* the first place of one of the characters in cs, or 0
Find(s, cs) ==
    LET S == {i \in 1..Len(s) : s[i] \in cs}
    IN  IF S = {} THEN 0 ELSE SetMin(S)

\* the three parts of a decimal literal without its sign: the digits before
\* the point, the digits after it, the exponent with its sign
Mantissa(u) ==
    IF Find(u, {"e", "E"}) = 0 THEN u ELSE SubSeq(u, 1, Find(u, {"e", "E"}) - 1)
ExponentPart(u) ==
    IF Find(u, {"e", "E"}) = 0 THEN <<>>
    ELSE SubSeq(u, Find(u, {"e", "E"}) + 1, Len(u))
IntegerPart(m) ==
    IF Find(m, {"."}) = 0 THEN m ELSE SubSeq(m, 1, Find(m, {"."}) - 1)
FractionPart(m) ==
    IF Find(m, {"."}) = 0 THEN <<>> ELSE SubSeq(m, Find(m, {"."}) + 1, Len(m))

\* the literal is well formed: digits on at least one side of the point, and
\* digits in the exponent when there is an e
IsDecimalLiteral(u) ==
    /\ IntegerPart(Mantissa(u)) # <<>> \/ FractionPart(Mantissa(u)) # <<>>
    /\ IntegerPart(Mantissa(u)) # <<>> => IsDigitRun(IntegerPart(Mantissa(u)))
    /\ FractionPart(Mantissa(u)) # <<>> => IsDigitRun(FractionPart(Mantissa(u)))
    /\ Find(u, {"e", "E"}) # 0 => IsDigitRun(WithoutSign(ExponentPart(u)))

\* the exponent of a well-formed literal
ExponentValue(e) ==
    IF e = <<>> THEN 0
    ELSE IF e[1] = "-" THEN -DigitsValue(Tail(e), 0)
    ELSE DigitsValue(WithoutSign(e), 0)

\* the float of a well-formed literal: its digits as an integer, scaled by
\* the exponent less the number of digits after the point
LiteralValue(int, frac, e) ==
    Dec(DigitsValue(int \o frac, 0), ExponentValue(e) - CountDigits(frac))

Infinity == {<<"i", "n", "f">>, <<"i", "n", "f", "i", "n", "i", "t", "y">>}

\* float(s) for a string without its sign: None when it raises ValueError
FloatUnsigned(u) ==
    IF lower(u) \in Infinity THEN Inf(FALSE)
    ELSE IF lower(u) = <<"n", "a", "n">> THEN NaN
    ELSE IF IsDecimalLiteral(u)
    THEN LiteralValue(IntegerPart(Mantissa(u)), FractionPart(Mantissa(u)),
                      ExponentPart(u))
    ELSE None

Signed(neg, x) ==
    IF x = None \/ ~neg THEN x ELSE [x EXCEPT !.neg = ~isnan(x)]

\* float(s): whitespace at both ends is ignored, then a sign
float(s) ==
    Signed(strip(s) # <<>> /\ strip(s)[1] = "-", FloatUnsigned(WithoutSign(strip(s))))

\* str(e) of the ValueError of float(s), with repr(s) for a string of plain
\* characters: could not convert string to float: 's'
CouldNotConvert(s) ==
    <<"c", "o", "u", "l", "d", " ", "n", "o", "t", " ", "c", "o",
      "n", "v", "e", "r", "t", " ", "s", "t", "r", "i", "n", "g",
      " ", "t", "o", " ", "f", "l", "o", "a", "t", ":", " ">>
        \o <<"'">> \o s \o <<"'">>

\* str(e) of the ValueError of the engine for a result that is inf or nan:
\* Conversion result is invalid (overflow/underflow): inf
ConversionResultIsInvalid ==
    <<"C", "o", "n", "v", "e", "r", "s", "i", "o", "n", " ", "r",
      "e", "s", "u", "l", "t", " ", "i", "s", " ", "i", "n", "v",
      "a", "l", "i", "d", " ", "(", "o", "v", "e", "r", "f", "l",
      "o", "w", "/", "u", "n", "d", "e", "r", "f", "l", "o", "w",
      ")", ":", " ">>
TemperatureConversionResultIsInvalid ==
    <<"T", "e", "m", "p", "e", "r", "a", "t", "u", "r", "e", " ",
      "c", "o", "n", "v", "e", "r", "s", "i", "o", "n", " ", "r",
      "e", "s", "u", "l", "t", " ", "i", "s", " ", "i", "n", "v",
      "a", "l", "i", "d", " ", "(", "o", "v", "e", "r", "f", "l",
      "o", "w", "/", "u", "n", "d", "e", "r", "f", "l", "o", "w",
      ")", ":", " ">>
ResultIsInvalid(op, result) ==
    (IF op = "convert_temperature"
     THEN TemperatureConversionResultIsInvalid ELSE ConversionResultIsInvalid)
        \o NonFiniteText(result)

(***************************************************************************)
(* The callers.  A caller passes a float and two members of the            *)
(* operation's unit enumeration.                                           *)
(***************************************************************************)
Operations == {"convert_length", "convert_weight", "convert_temperature",
               "convert_volume"}

\* the operations that convert through a table of factors
LinearOperations == {"convert_length", "convert_weight", "convert_volume"}

UnitsOf(op) ==
    CASE op = "convert_length" -> LengthUnit
      [] op = "convert_weight" -> WeightUnit
      [] op = "convert_temperature" -> TemperatureUnit
      [] op = "convert_volume" -> VolumeUnit

\* the values the callers pass
\* the values the callers pass: the floats of 0, 1, 32, 100, -40, 1609.344,
\* 1e-5 and 273.15, the two ends of the range, inf and nan
ValueLiterals == {<<0, 0>>, <<1, 0>>, <<32, 0>>, <<100, 0>>, <<-40, 0>>,
                  <<1609344, -3>>, <<1, -5>>, <<27315, -2>>}

Values == {Dec(l[1], l[2]) : l \in ValueLiterals}
              \cup {MaxFloat, MinFloat, Inf(FALSE), NaN}

\* [unit.value for unit in LengthUnit] and the like: the values of an
\* enumeration in the order of its members
UnitValues ==
    [Length |-> <<"meters", "kilometers", "centimeters", "millimeters",
                  "miles", "yards", "feet", "inches">>,
     Weight |-> <<"kilograms", "grams", "pounds", "ounces", "tons",
                  "metric_tons">>,
     Temperature |-> <<"celsius", "fahrenheit", "kelvin">>,
     Volume |-> <<"liters", "milliliters", "gallons", "quarts", "pints",
                  "cups", "fluid_ounces">>]

\* QComboBox: after clear() and addItems(items) the first item is current
ComboOf(items) ==
    [items |-> items, current |-> IF items = <<>> THEN "" ELSE items[1]]

NoLoad == [file |-> File("missing"), outcome |-> [kind |-> "none", theme |-> <<>>]]

\* the window after __init__ and an empty history, at midnight; no theme file
FieldsAtRest ==
    /\ current_category = "Length"
    /\ from_unit_combo = ComboOf(UnitValues["Length"])
    /\ to_unit_combo = ComboOf(UnitValues["Length"])
    /\ label_field = <<>>
    /\ input_field = <<>>
    /\ output_field = <<>>
    /\ dialog = NoDialog
HistoryAtRest ==
    /\ conversion_history = <<>>
    /\ history_list = <<>>
    /\ clock = 0
    /\ added = <<>>
ThemeAtRest ==
    /\ theme_file = File("missing")
    /\ loaded = NoLoad
    /\ dark_mode = TRUE
    /\ custom_theme_path = NoPath
    /\ theme_button = ButtonText(TRUE)
    /\ theme_call = "none"

\* no chain of conversions is under way
NoChain == [stage |-> 0, a |-> "", b |-> "", chained |-> NoOutcome]

\* nothing but the single caller has acted
OthersAtRest ==
    /\ chain = NoChain
    /\ threads = [t \in Threads |-> ThreadAtRest]
    /\ FieldsAtRest
    /\ HistoryAtRest
    /\ ThemeAtRest

NoCall == [op |-> "", value |-> None, from_unit |-> "", to_unit |-> "",
           back |-> FALSE, x |-> None]

(***************************************************************************)
(* The window's handlers (main.py).                                        *)
(***************************************************************************)
\* the engine operation and the enumeration of a category
OperationOf ==
    [Length |-> "convert_length", Weight |-> "convert_weight",
     Temperature |-> "convert_temperature", Volume |-> "convert_volume"]
EnumName ==
    [Length |-> <<"L", "e", "n", "g", "t", "h", "U", "n", "i", "t">>,
     Weight |-> <<"W", "e", "i", "g", "h", "t", "U", "n", "i", "t">>,
     Temperature |-> <<"T", "e", "m", "p", "e", "r", "a", "t", "u", "r", "e", "U",
                      "n", "i", "t">>,
     Volume |-> <<"V", "o", "l", "u", "m", "e", "U", "n", "i", "t">>]

\* the characters of the unit names
UnitChars ==
    "meters" :> <<"m", "e", "t", "e", "r", "s">>
    @@ "kilometers" :> <<"k", "i", "l", "o", "m", "e", "t", "e", "r", "s">>
    @@ "centimeters" :> <<"c", "e", "n", "t", "i", "m", "e", "t", "e", "r", "s">>
    @@ "millimeters" :> <<"m", "i", "l", "l", "i", "m", "e", "t", "e", "r", "s">>
    @@ "miles" :> <<"m", "i", "l", "e", "s">>
    @@ "yards" :> <<"y", "a", "r", "d", "s">>
    @@ "feet" :> <<"f", "e", "e", "t">>
    @@ "inches" :> <<"i", "n", "c", "h", "e", "s">>
    @@ "kilograms" :> <<"k", "i", "l", "o", "g", "r", "a", "m", "s">>
    @@ "grams" :> <<"g", "r", "a", "m", "s">>
    @@ "pounds" :> <<"p", "o", "u", "n", "d", "s">>
    @@ "ounces" :> <<"o", "u", "n", "c", "e", "s">>
    @@ "tons" :> <<"t", "o", "n", "s">>
    @@ "metric_tons" :> <<"m", "e", "t", "r", "i", "c", "_", "t", "o", "n", "s">>
    @@ "celsius" :> <<"c", "e", "l", "s", "i", "u", "s">>
    @@ "fahrenheit" :> <<"f", "a", "h", "r", "e", "n", "h", "e", "i", "t">>
    @@ "kelvin" :> <<"k", "e", "l", "v", "i", "n">>
    @@ "liters" :> <<"l", "i", "t", "e", "r", "s">>
    @@ "milliliters" :> <<"m", "i", "l", "l", "i", "l", "i", "t", "e", "r", "s">>
    @@ "gallons" :> <<"g", "a", "l", "l", "o", "n", "s">>
    @@ "quarts" :> <<"q", "u", "a", "r", "t", "s">>
    @@ "pints" :> <<"p", "i", "n", "t", "s">>
    @@ "cups" :> <<"c", "u", "p", "s">>
    @@ "fluid_ounces" :> <<"f", "l", "u", "i", "d", "_", "o", "u", "n", "c", "e", "s">>

\* str(e) of the ValueError of LengthUnit(text) and the like for a text that
\* is not a value of the enumeration: 'text' is not a valid LengthUnit
IsNotAValid(text, category) ==
    <<"'">> \o UnitChars[text]
        \o <<"'", " ", "i", "s", " ", "n", "o", "t", " ", "a", " ", "v",
          "a", "l", "i", "d", " ">>
        \o EnumName[category]

\* UnitConverter.convert_length and the others, by the name of the operation
UnitConverter(op, value, from_unit, to_unit) ==
    CASE op = "convert_length" -> convert_length_outcome(value, from_unit, to_unit)
      [] op = "convert_weight" -> convert_weight_outcome(value, from_unit, to_unit)
      [] op = "convert_temperature" ->
            convert_temperature_outcome(value, from_unit, to_unit)
      [] op = "convert_volume" -> convert_volume_outcome(value, from_unit, to_unit)


\* on_category_changed leaving the unit combo boxes as they are
on_category_changed_keeping_units(category_name) ==
    /\ current_category' = category_name
    /\ input_field' = <<>>
    /\ output_field' = <<>>
    /\ UNCHANGED <<from_unit_combo, to_unit_combo, label_field, dialog>>

\* on_category_changed: the category, update_unit_combos, and both fields
\* cleared
on_category_changed(category_name) ==
    /\ current_category' = category_name
    /\ from_unit_combo' = ComboOf(UnitValues[category_name])
    /\ to_unit_combo' = ComboOf(UnitValues[category_name])
    /\ input_field' = <<>>
    /\ output_field' = <<>>
    /\ UNCHANGED <<label_field, dialog>>

\* on_input_changed leaving the output as it is
on_input_changed_keeping_output == UNCHANGED output_field

\* on_input_changed: the output is cleared
on_input_changed == output_field' = <<>>

\* what convert leaves alone
NotConverted ==
    <<tables, pc, threads, theme, chain, current_category, from_unit_combo,
      to_unit_combo, label_field, input_field>>

\* the handlers of except ValueError, except KeyError and except
\* ZeroDivisionError; call and outcome are the engine call that raised, if
\* one was made
except_ValueError(error_msg, engine_call, raised) ==
    /\ dialog' =
          IF \/ Contains(lower(error_msg), <<"i", "n", "v", "a", "l", "i", "d">>)
             \/ Contains(lower(error_msg), <<"o", "v", "e", "r", "f", "l", "o", "w">>)
          THEN Warning("Invalid Conversion")
          ELSE Warning("Invalid Input")
    /\ call' = engine_call
    /\ outcome' = raised
    /\ UNCHANGED <<output_field, history>>

\* except KeyError passing in silence
except_critical_swallowed(engine_call, raised) ==
    /\ dialog' = IF raised.kind = "KeyError" THEN NoDialog
                 ELSE Critical("Conversion Error")
    /\ call' = engine_call
    /\ outcome' = raised
    /\ UNCHANGED <<output_field, history>>

except_critical(engine_call, raised) ==
    /\ dialog' = Critical("Conversion Error")
    /\ call' = engine_call
    /\ outcome' = raised
    /\ UNCHANGED <<output_field, history>>

\* the result shown and not recorded (line 706 lost)
show_result_not_recorded(value, from_unit_str, to_unit_str, result) ==
    /\ output_field' = formatted(result)
    /\ UNCHANGED <<dialog, call, outcome, history>>

\* lines 691-706: the result is shown and recorded
show_result(value, from_unit_str, to_unit_str, result) ==
    /\ output_field' = formatted(result)
    /\ add_to_history(value, from_unit_str, to_unit_str, result,
                      current_category, strip(label_field))
    /\ UNCHANGED <<dialog, call, outcome>>

\* the engine call has ended as in `ended`
convert_ended(engine_call, ended) ==
    CASE ended.kind = "return" ->
            show_result(engine_call.value, engine_call.from_unit,
                        engine_call.to_unit, ended.value)
      [] ended.kind = "ValueError" ->
            except_ValueError(ResultIsInvalid(engine_call.op, ended.value),
                              engine_call, ended)
      [] ended.kind \in {"KeyError", "ZeroDivisionError"} ->
            except_critical(engine_call, ended)

\* lines 664-689 for the float of the first line
convert_value(value, from_unit_str, to_unit_str) ==
    IF from_unit_str = "" \/ to_unit_str = ""
    THEN UNCHANGED <<output_field, dialog, call, outcome, history>>
    ELSE IF from_unit_str \notin UnitsOf(OperationOf[current_category])
    THEN except_ValueError(IsNotAValid(from_unit_str, current_category),
                           NoCall, NoOutcome)
    ELSE IF to_unit_str \notin UnitsOf(OperationOf[current_category])
    THEN except_ValueError(IsNotAValid(to_unit_str, current_category),
                           NoCall, NoOutcome)
    ELSE convert_ended(
            [op |-> OperationOf[current_category], value |-> value,
             from_unit |-> from_unit_str, to_unit |-> to_unit_str,
             back |-> FALSE, x |-> value],
            UnitConverter(OperationOf[current_category], value,
                          from_unit_str, to_unit_str))

\* lines 657-662 for the first line of the stripped input
convert_first_line(first_line, value) ==
    IF first_line = <<>>
    THEN /\ output_field' = <<>>
         /\ UNCHANGED <<dialog, call, outcome, history>>
    ELSE IF value = None
    THEN except_ValueError(CouldNotConvert(first_line), NoCall, NoOutcome)
    ELSE convert_value(value, from_unit_combo.current, to_unit_combo.current)

convert_text(first_line) == convert_first_line(first_line, float(first_line))

\* convert: the handler of the Convert button
convert ==
    /\ convert_text(strip(FirstLine(strip(input_field))))
    /\ UNCHANGED NotConverted

\* what the user does in the window: the units picked in the combo boxes,
\* the texts typed in the input field, the labels
UnitsTried == {"meters", "miles", "feet", "kilograms", "pounds",
               "celsius", "kelvin", "liters", "cups"}
InputTexts ==
    {<<>>,
     <<"5">>,
     <<" ", "0", ".", "5", "\n", "7">>,
     <<"1", "e", "1", "0">>,
     <<"-", "I", "n", "f">>,
     <<"a", "b", "c">>,
     <<"i", "n", "v", "a", "l", "i", "d">>}
Labels == {<<>>, <<"W", "i", "d", "t", "h">>}
MaxConversions == 1

\* what the window's events leave alone
OutsideWindow == <<tables, caller, threads, theme, chain>>

CategoryChanged ==
    /\ dialog = NoDialog
    /\ \E category_name \in UnitCategory \ {current_category} :
          on_category_changed(category_name)
    /\ UNCHANGED <<OutsideWindow, history>>

FromUnitSelected ==
    /\ dialog = NoDialog
    /\ \E unit \in UnitsTried \ {from_unit_combo.current} :
          /\ \E i \in 1..Len(from_unit_combo.items) : from_unit_combo.items[i] = unit
          /\ from_unit_combo' = [from_unit_combo EXCEPT !.current = unit]
    /\ on_input_changed
    /\ UNCHANGED <<current_category, to_unit_combo, label_field, input_field, dialog>>
    /\ UNCHANGED <<OutsideWindow, history>>

ToUnitSelected ==
    /\ dialog = NoDialog
    /\ \E unit \in UnitsTried \ {to_unit_combo.current} :
          /\ \E i \in 1..Len(to_unit_combo.items) : to_unit_combo.items[i] = unit
          /\ to_unit_combo' = [to_unit_combo EXCEPT !.current = unit]
    /\ on_input_changed
    /\ UNCHANGED <<current_category, from_unit_combo, label_field, input_field, dialog>>
    /\ UNCHANGED <<OutsideWindow, history>>

InputEdited ==
    /\ dialog = NoDialog
    /\ \E text \in InputTexts \ {input_field} : input_field' = text
    /\ on_input_changed
    /\ UNCHANGED <<current_category, from_unit_combo, to_unit_combo, label_field, dialog>>
    /\ UNCHANGED <<OutsideWindow, history>>

LabelEdited ==
    /\ dialog = NoDialog
    /\ \E text \in Labels \ {label_field} : label_field' = text
    /\ UNCHANGED <<current_category, from_unit_combo, to_unit_combo, input_field,
                   output_field, dialog>>
    /\ UNCHANGED <<OutsideWindow, history>>

ConvertClicked ==
    /\ dialog = NoDialog
    /\ Len(added) < MaxConversions
    /\ convert

\* the Convert button in a sitting of several conversions
MaxPresses == 2
ConvertPressed ==
    /\ dialog = NoDialog
    /\ Len(added) < MaxPresses
    /\ convert

\* the user closes the message box and the handler returns
DialogClosed ==
    /\ dialog # NoDialog
    /\ dialog' = NoDialog
    /\ call' = NoCall
    /\ outcome' = NoOutcome
    /\ UNCHANGED <<tables, pc, threads, theme, chain, history>>
    /\ UNCHANGED <<current_category, from_unit_combo, to_unit_combo,
                   label_field, input_field, output_field>>

NextApp ==
    \/ CategoryChanged
    \/ FromUnitSelected
    \/ ToUnitSelected
    \/ InputEdited
    \/ LabelEdited
    \/ ConvertClicked
    \/ DialogClosed
    \/ ClearHistory

\* a sitting of several conversions from the first unit of a category
NextPresses ==
    \/ CategoryChanged
    \/ ToUnitSelected
    \/ InputEdited
    \/ ConvertPressed
    \/ DialogClosed

NextThemeWindow ==
    \/ WriteThemeFile
    \/ LoadCustomTheme
    \/ ToggleTheme
    \/ ResetTheme
    \/ RecordOnce
    \/ DialogClosed

Init ==
    /\ LENGTH_TO_METERS = ShippedLengthToMeters
    /\ WEIGHT_TO_KILOGRAMS = ShippedWeightToKilograms
    /\ VOLUME_TO_LITERS = ShippedVolumeToLiters
    /\ pc = "idle"
    /\ call = NoCall
    /\ outcome = NoOutcome
    /\ OthersAtRest

\* the process of the edited build
InitEdited ==
    /\ LENGTH_TO_METERS = EditedLengthToMeters
    /\ WEIGHT_TO_KILOGRAMS = EditedWeightToKilograms
    /\ VOLUME_TO_LITERS = EditedVolumeToLiters
    /\ pc = "idle"
    /\ call = NoCall
    /\ outcome = NoOutcome
    /\ OthersAtRest

\* a caller calls one of the four operations
Request ==
    /\ pc = "idle"
    /\ \E op \in Operations, value \in Values :
         \E from_unit \in UnitsOf(op), to_unit \in UnitsOf(op) :
            call' = [op |-> op, value |-> value, from_unit |-> from_unit,
                     to_unit |-> to_unit, back |-> FALSE, x |-> value]
    /\ pc' = "called"
    /\ UNCHANGED <<tables, outcome>>
    /\ UNCHANGED others

\* the caller converts the value a call returned back to the unit it came from
RoundTrip ==
    /\ pc = "done"
    /\ outcome.kind = "return"
    /\ ~call.back
    /\ call' = [op |-> call.op, value |-> outcome.value,
                from_unit |-> call.to_unit, to_unit |-> call.from_unit,
                back |-> TRUE, x |-> call.value]
    /\ pc' = "called"
    /\ outcome' = NoOutcome
    /\ UNCHANGED tables
    /\ UNCHANGED others

\* the caller is done with the outcome
Return ==
    /\ pc = "done"
    /\ pc' = "idle"
    /\ call' = NoCall
    /\ outcome' = NoOutcome
    /\ UNCHANGED tables
    /\ UNCHANGED others

\* convert_length storing the result it computed as the factor of the target
\* unit
convert_length_storing ==
    /\ pc = "called"
    /\ call.op = "convert_length"
    /\ outcome' = convert_length_outcome(call.value, call.from_unit, call.to_unit)
    /\ pc' = "done"
    /\ LENGTH_TO_METERS' =
          IF outcome'.kind = "return"
          THEN (call.to_unit :> outcome'.value) @@ LENGTH_TO_METERS
          ELSE LENGTH_TO_METERS
    /\ UNCHANGED <<WEIGHT_TO_KILOGRAMS, VOLUME_TO_LITERS, call>>
    /\ UNCHANGED others

convert_length ==
    /\ pc = "called"
    /\ call.op = "convert_length"
    /\ outcome' = convert_length_outcome(call.value, call.from_unit, call.to_unit)
    /\ pc' = "done"
    /\ UNCHANGED <<tables, call>>
    /\ UNCHANGED others

convert_weight ==
    /\ pc = "called"
    /\ call.op = "convert_weight"
    /\ outcome' = convert_weight_outcome(call.value, call.from_unit, call.to_unit)
    /\ pc' = "done"
    /\ UNCHANGED <<tables, call>>
    /\ UNCHANGED others

convert_temperature ==
    /\ pc = "called"
    /\ call.op = "convert_temperature"
    /\ outcome' = convert_temperature_outcome(call.value, call.from_unit, call.to_unit)
    /\ pc' = "done"
    /\ UNCHANGED <<tables, call>>
    /\ UNCHANGED others

convert_volume ==
    /\ pc = "called"
    /\ call.op = "convert_volume"
    /\ outcome' = convert_volume_outcome(call.value, call.from_unit, call.to_unit)
    /\ pc' = "done"
    /\ UNCHANGED <<tables, call>>
    /\ UNCHANGED others

\* the caller converts the value that a call from a to b returned on to a
\* unit c of the same table
ChainSecond ==
    /\ pc = "done"
    /\ outcome.kind = "return"
    /\ chain.stage = 0
    /\ call.op \in LinearOperations
    /\ \E c \in UnitsOf(call.op) :
          call' = [op |-> call.op, value |-> outcome.value,
                   from_unit |-> call.to_unit, to_unit |-> c,
                   back |-> FALSE, x |-> call.x]
    /\ chain' = [stage |-> 1, a |-> call.from_unit, b |-> call.to_unit,
                 chained |-> NoOutcome]
    /\ pc' = "called"
    /\ outcome' = NoOutcome
    /\ UNCHANGED <<tables, threads, fields, history, theme>>

\* the caller keeps how the chain ended and converts the value it started
\* from directly from a to c
ChainDirect ==
    /\ pc = "done"
    /\ chain.stage = 1
    /\ call' = [op |-> call.op, value |-> call.x,
                from_unit |-> chain.a, to_unit |-> call.to_unit,
                back |-> FALSE, x |-> call.x]
    /\ chain' = [stage |-> 2, a |-> chain.a, b |-> chain.b,
                 chained |-> outcome]
    /\ pc' = "called"
    /\ outcome' = NoOutcome
    /\ UNCHANGED <<tables, threads, fields, history, theme>>

\* the caller is done with the chain, or with a call that started none
ChainReturn ==
    /\ pc = "done"
    /\ chain.stage # 1
    /\ pc' = "idle"
    /\ call' = NoCall
    /\ outcome' = NoOutcome
    /\ chain' = NoChain
    /\ UNCHANGED <<tables, threads, fields, history, theme>>

NextChain ==
    \/ Request
    \/ ChainSecond
    \/ ChainDirect
    \/ ChainReturn
    \/ convert_length
    \/ convert_weight
    \/ convert_temperature
    \/ convert_volume

Next ==
    \/ Request
    \/ RoundTrip
    \/ Return
    \/ convert_length
    \/ convert_weight
    \/ convert_temperature
    \/ convert_volume

Spec == Init /\ [][Next]_vars

\* several threads call the engine of the shipped build
SpecThreads == Init /\ [][NextThreads]_vars

SpecEdited == InitEdited /\ [][Next]_vars

\* the history exercised alone
SpecHistory == Init /\ [][NextHistory]_vars

\* the window, with the shipped tables and with the edited ones
SpecApp == Init /\ [][NextApp]_vars
SpecAppEdited == InitEdited /\ [][NextApp]_vars

\* several conversions in the window of the build with edited tables
SpecPressesEdited == InitEdited /\ [][NextPresses]_vars

\* theme files saved and loaded
SpecTheme == Init /\ [][NextTheme]_vars

\* the themes of the window
SpecThemeWindow == Init /\ [][NextThemeWindow]_vars

\* conversions chained through a third unit
SpecChain == Init /\ [][NextChain]_vars


(***************************************************************************)
(* The claims.                                                             *)
(***************************************************************************)

\* the factor table an operation reads, as it is in the current state
TableOf(op) ==
    CASE op = "convert_length" -> LENGTH_TO_METERS
      [] op = "convert_weight" -> WEIGHT_TO_KILOGRAMS
      [] op = "convert_volume" -> VOLUME_TO_LITERS

\* a call of a linear operation has ended
LinearDone == pc = "done" /\ call.op \in LinearOperations

\* the call that ended was made with the arguments (value, from_unit, to_unit)
Called(op, value, from_unit, to_unit) ==
    /\ pc = "done"
    /\ ~call.back
    /\ call.op = op
    /\ call.value = value
    /\ call.from_unit = from_unit
    /\ call.to_unit = to_unit

\* |a - b| for finite a and b, exactly: <<n, e>> with |a - b| = n * 2^e
AbsDiff(a, b) ==
    LET e == IF IsZero(a) THEN b.exp
             ELSE IF IsZero(b) THEN a.exp
             ELSE Min(a.exp, b.exp)
        m == IF IsZero(a) THEN <<>> ELSE BShl(a.man, a.exp - e)
        n == IF IsZero(b) THEN <<>> ELSE BShl(b.man, b.exp - e)
    IN  IF a.neg # b.neg THEN <<BAdd(m, n), e>>
        ELSE IF BCmp(m, n) >= 0 THEN <<BSub(m, n), e>>
        ELSE <<BSub(n, m), e>>

\* |r - x| <= 1e-9 * |x|, exactly
WithinRelative(r, x) ==
    LET d == AbsDiff(r, x)
    IN  LeqScaled(BMul(d[1], BFromInt(1000000000)), d[2], x.man, x.exp)

\* |r - x| <= 1e-9 * 273.15, exactly
WithinOffset(r, x) ==
    LET d == AbsDiff(r, x)
    IN  LeqScaled(BMul(BMul(d[1], BFromInt(1000000000)), <<100>>), d[2],
                  BFromInt(27315), 0)

\* C1: a call of any of the four operations with equal source and target
\* units and a finite value returns exactly that value, with no arithmetic
\* applied and no error raised.
C1_Identity ==
    (pc = "done" /\ call.from_unit = call.to_unit /\ IsFinite(call.value))
        => outcome = Returned(call.value, FALSE)

C1_Witness ==
    /\ Called("convert_length", MaxFloat, "kilometers", "kilometers")
    /\ outcome.kind = "return"
    /\ outcome.value = MaxFloat

\* the transforms of the specification's temperature algorithm
ToCelsius(v, unit) ==
    CASE unit = "celsius" -> v
      [] unit = "fahrenheit" -> FDiv(FMul(FSub(v, Dec(32, 0)), Dec(5, 0)), Dec(9, 0))
      [] unit = "kelvin" -> FSub(v, Dec(27315, -2))

FromCelsius(c, unit) ==
    CASE unit = "celsius" -> c
      [] unit = "fahrenheit" -> FAdd(FDiv(FMul(c, Dec(9, 0)), Dec(5, 0)), Dec(32, 0))
      [] unit = "kelvin" -> FAdd(c, Dec(27315, -2))

\* the result the operation computes for the call that ended: value times
\* the source factor divided by the target factor, or the affine result
ComputedResult ==
    IF call.op \in LinearOperations
    THEN FDiv(FMul(call.value, TableOf(call.op)[call.from_unit]),
              TableOf(call.op)[call.to_unit])
    ELSE FromCelsius(ToCelsius(call.value, call.from_unit), call.to_unit)

\* C2: whenever the result an operation computes (value times the source
\* factor divided by the target factor, or the affine temperature result) is
\* infinite or not a number, the call fails with ValueError carrying that
\* result, and returns no number.
C2_OverflowGuard ==
    (pc = "done" /\ call.from_unit # call.to_unit)
        => /\ (isinf(ComputedResult) \/ isnan(ComputedResult))
                => outcome = RaisedValueError(ComputedResult)
           /\ outcome.kind = "return" => IsFinite(outcome.value)

C2_Witness ==
    /\ Called("convert_length", MaxFloat, "kilometers", "meters")
    /\ outcome = RaisedValueError(Inf(FALSE))

\* C3 as stated: every call of a linear operation in which the source unit
\* or the target unit has no entry in the table fails with KeyError.
C3_UnknownUnitAlways ==
    (LinearDone /\ (\/ call.from_unit \notin DOMAIN TableOf(call.op)
                    \/ call.to_unit \notin DOMAIN TableOf(call.op)))
        => outcome.kind = "KeyError"

\* C3, amended: every call of a linear operation with different source and
\* target units in which the source unit or the target unit has no entry in
\* the table fails with KeyError and returns no value.
C3_UnknownUnit ==
    (LinearDone /\ call.from_unit # call.to_unit
                /\ (\/ call.from_unit \notin DOMAIN TableOf(call.op)
                    \/ call.to_unit \notin DOMAIN TableOf(call.op)))
        => outcome.kind = "KeyError" /\ outcome.value = None

C3_Witness ==
    /\ Called("convert_weight", Dec(1, 0), "kilograms", "tons")
    /\ "tons" \notin DOMAIN WEIGHT_TO_KILOGRAMS
    /\ outcome = Raised("KeyError", "tons")

\* C4: a call of a linear operation with different units, both in the table,
\* one of whose factors is exactly zero fails with ZeroDivisionError before
\* the multiplication and the division, and returns neither a value nor a
\* ValueError.
C4_DegenerateFactor ==
    (LinearDone /\ call.from_unit # call.to_unit
                /\ call.from_unit \in DOMAIN TableOf(call.op)
                /\ call.to_unit \in DOMAIN TableOf(call.op)
                /\ (\/ IsZero(TableOf(call.op)[call.from_unit])
                    \/ IsZero(TableOf(call.op)[call.to_unit])))
        => /\ outcome.kind = "ZeroDivisionError"
           /\ ~outcome.computed
           /\ outcome.value = None

C4_Witness ==
    /\ Called("convert_length", Dec(1, 0), "feet", "meters")
    /\ IsZero(LENGTH_TO_METERS["feet"])
    /\ ~IsZero(LENGTH_TO_METERS["meters"])
    /\ outcome = Raised("ZeroDivisionError", "feet")

\* the shipped table of a linear operation
ShippedTableOf(op) ==
    CASE op = "convert_length" -> ShippedLengthToMeters
      [] op = "convert_weight" -> ShippedWeightToKilograms
      [] op = "convert_volume" -> ShippedVolumeToLiters

\* C5: a call of a linear operation with different units that returns,
\* returns value * factor[from_unit] / factor[to_unit] with the shipped
\* tables; 1 meter is 0.001 kilometers, 1609.344 meters are 1 mile,
\* 1 kilogram is 1000 grams, 1 pound is 0.453592 kilograms and 1 gallon is
\* 3.78541 liters.
C5_LinearConversion ==
    /\ (LinearDone /\ call.from_unit # call.to_unit /\ outcome.kind = "return")
          => outcome.value =
                FDiv(FMul(call.value, ShippedTableOf(call.op)[call.from_unit]),
                     ShippedTableOf(call.op)[call.to_unit])
    /\ Called("convert_length", Dec(1, 0), "meters", "kilometers")
          => outcome = Returned(Dec(1, -3), TRUE)
    /\ Called("convert_length", Dec(1609344, -3), "meters", "miles")
          => outcome = Returned(Dec(1, 0), TRUE)
    /\ Called("convert_weight", Dec(1, 0), "kilograms", "grams")
          => outcome = Returned(Dec(1000, 0), TRUE)
    /\ Called("convert_weight", Dec(1, 0), "pounds", "kilograms")
          => outcome = Returned(Dec(453592, -6), TRUE)
    /\ Called("convert_volume", Dec(1, 0), "gallons", "liters")
          => outcome = Returned(Dec(378541, -5), TRUE)

C5_Witness ==
    /\ Called("convert_weight", Dec(1, 0), "kilograms", "grams")
    /\ outcome.kind = "return"
    /\ outcome.value = Dec(1000, 0)

\* C6: a call of convert_temperature with different units that returns,
\* returns the target transform applied to the Celsius intermediate; 0 C is
\* 32 F, 100 C is 212 F, 0 C is 273.15 K and 32 F is 0 C.
C6_Temperature ==
    /\ (pc = "done" /\ call.op = "convert_temperature"
                    /\ call.from_unit # call.to_unit /\ outcome.kind = "return")
          => outcome.value =
                FromCelsius(ToCelsius(call.value, call.from_unit), call.to_unit)
    /\ Called("convert_temperature", Dec(0, 0), "celsius", "fahrenheit")
          => outcome = Returned(Dec(32, 0), TRUE)
    /\ Called("convert_temperature", Dec(100, 0), "celsius", "fahrenheit")
          => outcome = Returned(Dec(212, 0), TRUE)
    /\ Called("convert_temperature", Dec(0, 0), "celsius", "kelvin")
          => outcome = Returned(Dec(27315, -2), TRUE)
    /\ Called("convert_temperature", Dec(32, 0), "fahrenheit", "celsius")
          => outcome = Returned(Dec(0, 0), TRUE)

C6_Witness ==
    /\ Called("convert_temperature", Dec(100, 0), "celsius", "fahrenheit")
    /\ outcome.kind = "return"
    /\ outcome.value = Dec(212, 0)

\* a round trip has ended: the value x was converted from a to b and the
\* result back from b to a, and both calls returned
RoundTripDone == pc = "done" /\ call.back /\ outcome.kind = "return"

\* C7 as stated: the round trip of a finite x that is not degenerate (not
\* zero, not subnormal, both conversions return) yields x within the
\* relative tolerance 1e-9.
C7_RoundTripRelative ==
    (RoundTripDone /\ IsFinite(call.x) /\ ~IsZero(call.x) /\ Top(call.x) > -1022)
        => WithinRelative(outcome.value, call.x)

\* |x| >= 1e-300, exactly
TenTo300 == BPow10(300)
AtLeast1em300(x) == LeqScaled(<<1>>, 0, BMul(x.man, TenTo300), x.exp)

\* C7, amended: when both conversions of a round trip of a finite x return,
\* the result r is within the relative tolerance 1e-9 of x in the length,
\* weight and volume categories provided x is zero or |x| >= 1e-300, and in
\* the temperature category |r - x| <= 1e-9 * max(|x|, 273.15).
C7_RoundTrip ==
    (RoundTripDone /\ IsFinite(call.x))
        => IF call.op \in LinearOperations
           THEN (IsZero(call.x) \/ AtLeast1em300(call.x))
                    => WithinRelative(outcome.value, call.x)
           ELSE \/ WithinRelative(outcome.value, call.x)
                \/ WithinOffset(outcome.value, call.x)

C7_Witness ==
    /\ RoundTripDone
    /\ call.op = "convert_temperature"
    /\ call.x = Dec(1, -5)
    /\ call.to_unit = "celsius"
    /\ call.from_unit = "kelvin"
    /\ ~WithinRelative(outcome.value, call.x)
    /\ WithinOffset(outcome.value, call.x)

\* C8: each factor table has exactly one entry for every member of its
\* category's enumeration and none for a unit of another category, and every
\* unit belongs to exactly one category.
C8_TableTotality ==
    /\ DOMAIN LENGTH_TO_METERS = LengthUnit
    /\ DOMAIN WEIGHT_TO_KILOGRAMS = WeightUnit
    /\ DOMAIN VOLUME_TO_LITERS = VolumeUnit
    /\ \A c, d \in {LengthUnit, WeightUnit, TemperatureUnit, VolumeUnit} :
          c # d => c \cap d = {}

C8_Witness ==
    /\ Called("convert_volume", Dec(1, 0), "cups", "fluid_ounces")
    /\ outcome.kind = "return"

\* C9: every factor of the three tables is finite and strictly positive, and
\* the factor of each base unit (meters, kilograms, liters) is exactly 1.
C9_PositiveFactors ==
    /\ \A t \in {LENGTH_TO_METERS, WEIGHT_TO_KILOGRAMS, VOLUME_TO_LITERS} :
          \A u \in DOMAIN t : IsFinite(t[u]) /\ ~IsZero(t[u]) /\ ~t[u].neg
    /\ LENGTH_TO_METERS["meters"] = Dec(1, 0)
    /\ WEIGHT_TO_KILOGRAMS["kilograms"] = Dec(1, 0)
    /\ VOLUME_TO_LITERS["liters"] = Dec(1, 0)

C9_Witness ==
    /\ Called("convert_weight", Dec(1, 0), "grams", "kilograms")
    /\ outcome = Returned(WEIGHT_TO_KILOGRAMS["grams"], TRUE)

\* C10: no step of any of the four operations, whether the call returns or
\* fails, changes a factor table: the tables keep their initial contents.
C10_TablesUnchanged ==
    [][/\ LENGTH_TO_METERS' = LENGTH_TO_METERS
       /\ WEIGHT_TO_KILOGRAMS' = WEIGHT_TO_KILOGRAMS
       /\ VOLUME_TO_LITERS' = VOLUME_TO_LITERS]_vars

C10_Witness ==
    /\ Called("convert_length", NaN, "meters", "feet")
    /\ outcome.kind = "ValueError"
    /\ LENGTH_TO_METERS = ShippedLengthToMeters

\* the outcome of a call that runs alone, from its first statement to its
\* last with no other call in between
OutcomeAlone(op, value, from_unit, to_unit) ==
    CASE op = "convert_length" -> convert_length_outcome(value, from_unit, to_unit)
      [] op = "convert_weight" -> convert_weight_outcome(value, from_unit, to_unit)
      [] op = "convert_temperature" ->
             convert_temperature_outcome(value, from_unit, to_unit)
      [] op = "convert_volume" -> convert_volume_outcome(value, from_unit, to_unit)

\* C11: whatever the interleaving of the statements of the threads, a call
\* that has ended in a thread has the outcome (the returned value or the
\* error) that the same call has when it runs alone.
C11_ThreadsAgree ==
    \A t \in Threads :
        threads[t].pc = "done"
            => threads[t].outcome =
                  OutcomeAlone(threads[t].op, threads[t].value,
                               threads[t].from_unit, threads[t].to_unit)

C11_Witness ==
    /\ threads[1].pc = "done"
    /\ threads[1].op = "convert_length"
    /\ threads[1].outcome = Returned(FromInt(1), TRUE)
    /\ threads[2].pc = "divide"
    /\ threads[2].op = "convert_length"
    /\ threads[2].from_unit = "feet"

\* the last n of a list, the newest first
NewestFirst(list, n) == [i \in 1..n |-> list[Len(list) + 1 - i]]

\* C12: after any sequence of add_to_history and clear_history the list in
\* memory holds at most 50 entries.
C12_HistoryCap == Len(conversion_history) <= 50

\* more than 50 entries were added since the last clear, and 50 are held
C12_Witness == Len(added) > 50 /\ Len(conversion_history) = 50

\* C13: after n additions since the last clear the history holds exactly the
\* min(n, 50) entries added last, the newest first: an addition beyond the cap
\* evicts the oldest.
C13_EvictionOrder ==
    conversion_history = NewestFirst(added, Min(Len(added), 50))

\* 52 additions spanning two seconds: the two oldest are gone, the third
\* oldest is the last one held and the newest is in front
C13_Witness ==
    /\ Len(added) = 52
    /\ added[1].timestamp # added[52].timestamp
    /\ conversion_history[50] = added[3]
    /\ conversion_history[1] = added[52]

\* '#' followed by exactly 6 hexadecimal digits
IsHashAndSixHex(value) ==
    /\ value.type = "string"
    /\ Len(value.s) = 7
    /\ value.s[1] = "#"
    /\ \A i \in 2..7 : value.s[i] \in HexDigits

\* C14: whenever ThemeManager.load_custom_theme returns a theme, the theme
\* has the five keys primary, secondary, neutral, accent and status and each
\* of the five values is '#' followed by exactly 6 hexadecimal digits.
C14_ReturnedThemeIsValid ==
    loaded.outcome.kind = "theme" =>
        \A color \in required_colors :
            /\ color \in Keys(loaded.outcome.theme)
            /\ IsHashAndSixHex(Get(loaded.outcome.theme, color))

\* the file is one of those the claim lists: missing, unreadable, not
\* well-formed JSON, JSON that is not an object with the five keys, or an
\* object with a color that is not '#' and 6 hexadecimal digits
IsRejectedFile(file) ==
    \/ file.kind \in {"missing", "unreadable", "not_utf8", "malformed"}
    \/ file.json.type # "object"
    \/ \E color \in required_colors :
          \/ color \notin Keys(file.json.members)
          \/ ~IsHashAndSixHex(Get(file.json.members, color))

\* C15: ThemeManager.load_custom_theme never raises, and it returns None
\* whenever the file is missing, unreadable, not well-formed JSON, JSON of a
\* shape that is not an object with the five keys, or has a missing or
\* invalid required color.
C15_FailsSilently ==
    loaded.outcome.kind # "none" =>
        /\ loaded.outcome.kind \in {"None", "theme"}
        /\ IsRejectedFile(loaded.file) => loaded.outcome.kind = "None"

\* the window's current request: the float of the first line of the input,
\* and how the engine ends on it with the units selected
RequestedValue == float(strip(FirstLine(strip(input_field))))
RequestedOutcome ==
    OutcomeAlone(OperationOf[current_category], RequestedValue,
                 from_unit_combo.current, to_unit_combo.current)

\* text is full without the zeros at its end and then without the point at
\* its end
IsTrimmed(text, full) ==
    \E k \in 0..Len(full), d \in 0..1 :
        /\ k + d <= Len(full)
        /\ text = SubSeq(full, 1, k)
        /\ \A i \in (k + 1)..(k + d) : full[i] = "."
        /\ \A i \in (k + d + 1)..Len(full) : full[i] = "0"
        /\ k > 0 => text[k] # "."
        /\ (k > 0 /\ d = 0) => text[k] # "0"

\* text renders r by the rule: scientific notation with 6 decimals exactly
\* when abs(r) >= 1e6 or r is nonzero with abs(r) < 1e-3, fixed notation
\* with 6 decimals otherwise, and trimmed
IsRendered(text, r) ==
    LET scientific == AbsGeq(r, Dec(1, 6)) \/ (~IsZero(r) /\ AbsLess(r, Dec(1, -3)))
    IN  /\ scientific => IsTrimmed(text, Format6e(r))
        /\ ~scientific => IsTrimmed(text, Format6f(r))
        /\ IsFinite(r) => (scientific <=> \E i \in 1..Len(text) : text[i] = "e")

C17_ErrorClassification ==
    /\ outcome.kind \in {"KeyError", "ZeroDivisionError"} => dialog.kind = "critical"
    /\ outcome.kind = "ValueError" => dialog.kind = "warning"
    /\ dialog # NoDialog =>
          IF RequestedValue = None THEN dialog.kind = "warning" /\ call = NoCall
          ELSE /\ outcome = RequestedOutcome
               /\ outcome.kind \in {"KeyError", "ZeroDivisionError", "ValueError"}

\* the unit miles has no factor in the edited table: KeyError, a critical box
C17_Witness ==
    /\ outcome.kind = "KeyError"
    /\ outcome.unit = "miles"
    /\ dialog = Critical("Conversion Error")

\* C18: when the first line of the input is not empty and is not a number,
\* convert reports Invalid Input, never Invalid Conversion, and does not call
\* the engine.
C18_InvalidInput ==
    (/\ dialog # NoDialog
     /\ strip(FirstLine(strip(input_field))) # <<>>
     /\ RequestedValue = None)
        => dialog = Warning("Invalid Input") /\ call = NoCall

\* C20: with the shipped tables, whatever the user does in the window, both
\* combo boxes hold the units of the current category and nothing else, each
\* with a nonzero factor in the table of the category, and no conversion
\* ends in KeyError or ZeroDivisionError.
C20_NoProgrammingError ==
    /\ from_unit_combo.items = UnitValues[current_category]
    /\ to_unit_combo.items = UnitValues[current_category]
    /\ \A combo \in {from_unit_combo, to_unit_combo} :
          /\ \E i \in 1..Len(combo.items) : combo.items[i] = combo.current
          /\ \A i \in 1..Len(combo.items) :
                /\ combo.items[i] \in UnitsOf(OperationOf[current_category])
                /\ OperationOf[current_category] \in LinearOperations =>
                      /\ combo.items[i] \in DOMAIN TableOf(OperationOf[current_category])
                      /\ ~IsZero(TableOf(OperationOf[current_category])[combo.items[i]])
    /\ outcome.kind \notin {"KeyError", "ZeroDivisionError"}
    /\ dialog.kind # "critical"

\* after a change of category and of unit, 5 liters are shown in cups
C20_Witness ==
    /\ current_category = "Volume"
    /\ from_unit_combo.current = "liters"
    /\ to_unit_combo.current = "cups"
    /\ input_field = <<"5">>
    /\ output_field # <<>>

\* a chain has ended: x was converted from a to b, the result from b to c,
\* and x from a to c directly
ChainDone == pc = "done" /\ chain.stage = 2
BothReturned == chain.chained.kind = "return" /\ outcome.kind = "return"

\* C19 as stated: for units a, b, c of one of the length, weight or volume
\* categories and finite x, converting x from a to b and the result from b
\* to c gives the value of converting x from a to c directly, within the
\* relative tolerance 1e-9 (whenever the conversions return).
C19_PairwiseAlways ==
    (ChainDone /\ BothReturned /\ IsFinite(call.x))
        => WithinRelative(chain.chained.value, outcome.value)

\* C19, amended: when the three conversions return and the finite x is zero
\* or |x| >= 1e-300, the chained result is within the relative tolerance
\* 1e-9 of the direct one.
C19_Pairwise ==
    (ChainDone /\ BothReturned /\ IsFinite(call.x))
        => \/ WithinRelative(chain.chained.value, outcome.value)
           \/ ~(IsZero(call.x) \/ AtLeast1em300(call.x))

\* a chain through a third unit whose result differs from the direct one in
\* the last bits only
C19_Witness ==
    /\ ChainDone
    /\ BothReturned
    /\ call.op = "convert_volume"
    /\ chain.a # chain.b /\ chain.b # call.to_unit /\ chain.a # call.to_unit
    /\ chain.chained.value # outcome.value
    /\ WithinRelative(chain.chained.value, outcome.value)
    /\ AtLeast1em300(call.x)

\* the chain of a finite x raises ValueError while the direct conversion
\* returns
ChainRaisedAlone ==
    /\ ChainDone
    /\ IsFinite(call.x)
    /\ chain.chained.kind = "ValueError"
    /\ outcome.kind = "return"

\* C22 as stated: no call of any of the four operations, whatever the value
\* and the units, equal units included, returns an infinite value or a
\* not-a-number.
C22_NeverNonFinite ==
    (pc = "done" /\ outcome.kind = "return") => IsFinite(outcome.value)

\* C22, amended: a call with different units returns a finite number or
\* fails; a call with equal units returns its value unchanged without any
\* test, so it returns inf or nan exactly when it was given inf or nan.
C22_NonFiniteOnlyUnchanged ==
    (pc = "done" /\ outcome.kind = "return")
        => IF call.from_unit = call.to_unit
           THEN outcome = Returned(call.value, FALSE)
           ELSE outcome.computed /\ IsFinite(outcome.value)

C22_Witness ==
    /\ Called("convert_temperature", NaN, "kelvin", "kelvin")
    /\ outcome = Returned(NaN, FALSE)

\* the outcome the order of the tests of a linear operation gives a call
\* with different units: the source unit's entry, the target unit's entry,
\* the source factor, the target factor, and only then the arithmetic
PrecedenceHolds(table) ==
    IF call.from_unit \notin DOMAIN table
    THEN outcome = Raised("KeyError", call.from_unit)
    ELSE IF call.to_unit \notin DOMAIN table
    THEN outcome = Raised("KeyError", call.to_unit)
    ELSE IF IsZero(table[call.from_unit])
    THEN outcome = Raised("ZeroDivisionError", call.from_unit)
    ELSE IF IsZero(table[call.to_unit])
    THEN outcome = Raised("ZeroDivisionError", call.to_unit)
    ELSE outcome.kind \in {"return", "ValueError"}

\* C23: in a call of a linear operation with different units a missing
\* source unit is reported before a missing target unit, a missing unit
\* before a zero factor, a zero source factor before a zero target factor,
\* and ValueError is raised only when both units have nonzero factors.
C23_ErrorPrecedence ==
    (LinearDone /\ call.from_unit # call.to_unit)
        => PrecedenceHolds(TableOf(call.op))

\* the source factor is zero and the target unit is missing: KeyError
C23_Witness ==
    /\ Called("convert_volume", Inf(FALSE), "quarts", "cups")
    /\ IsZero(VOLUME_TO_LITERS["quarts"])
    /\ "cups" \notin DOMAIN VOLUME_TO_LITERS
    /\ outcome = Raised("KeyError", "cups")

\* C25: the result field is empty or shows the formatted conversion of the
\* first line of the current input between the units now selected in the
\* current category; it never shows the result of an earlier input or
\* selection.
C25_OutputFresh ==
    output_field # <<>> =>
        /\ RequestedValue # None
        /\ RequestedOutcome.kind = "return"
        /\ output_field = formatted(RequestedOutcome.value)

\* the result of the first line of a two-line input, for units picked after
\* the window opened
C25_Witness ==
    /\ input_field = <<" ", "0", ".", "5", "\n", "7">>
    /\ from_unit_combo.current = "feet"
    /\ to_unit_combo.current = "miles"
    /\ output_field = formatted(RequestedOutcome.value)
    /\ output_field # <<>>

\* C26: the items of the list widget and the entries of conversion_history
\* are the same, in the same order, after any sequence of add_to_history
\* and clear_history.
C26_ListsAgree ==
    /\ Len(history_list) = Len(conversion_history)
    /\ \A i \in 1..Len(history_list) : history_list[i] = conversion_history[i]

\* both lists after an eviction, holding entries of two different seconds
C26_Witness ==
    /\ Len(added) > 50
    /\ Len(history_list) = 50
    /\ history_list[1].timestamp # history_list[50].timestamp
    /\ history_list = conversion_history

\* the 6-decimal text before the trimming
Untrimmed(x) == IF UsesScientific(x) THEN Format6e(x) ELSE Format6f(x)

\* C27: the trimmed text shown for a finite result denotes the same number
\* as the untrimmed 6-decimal text.
C27_TrimmingPreservesNumber ==
    (output_field # <<>> /\ IsFinite(RequestedOutcome.value))
        => float(output_field) = float(Untrimmed(RequestedOutcome.value))

\* the conversion requested in the window succeeds: the first line of the
\* input is a number and the engine returns
RequestSucceeds ==
    /\ strip(FirstLine(strip(input_field))) # <<>>
    /\ RequestedValue # None
    /\ RequestedOutcome.kind = "return"

\* one entry went in front of both lists and none left them
OneEntryAdded ==
    /\ Len(conversion_history') = Len(conversion_history) + 1
    /\ Tail(conversion_history') = conversion_history
    /\ Tail(history_list') = history_list
    /\ conversion_history'[1].from_unit = from_unit_combo.current
    /\ conversion_history'[1].to_unit = to_unit_combo.current
    /\ conversion_history'[1].category = current_category
    /\ conversion_history'[1].formatted_result = formatted(RequestedOutcome.value)

\* C24: a press of Convert adds exactly one entry at the front of the
\* history when the conversion succeeds, and leaves the history as it is
\* when the input is empty, is not a number, or the engine raises.
C24_OneEntryPerPress ==
    [][ConvertPressed =>
          IF RequestSucceeds THEN OneEntryAdded
          ELSE UNCHANGED <<conversion_history, history_list>>]_vars

\* a second conversion recorded in front of the first
C24_Witness ==
    /\ Len(conversion_history) = 2
    /\ conversion_history[1].to_unit = "kelvin"
    /\ conversion_history[2].category = "Length"
    /\ output_field = conversion_history[1].formatted_result

\* C21 as stated: UnitConverterApp.load_custom_theme(path) returns True with
\* custom_theme_path set to path, or returns False with custom_theme_path
\* and dark_mode unchanged; it ends in no other way.
C21_LoadReturnsTrueOrFalse ==
    [][LoadCustomTheme =>
          \/ /\ theme_call' = "True"
             /\ custom_theme_path' = ThemePath
             /\ ThemeManager_load_custom_theme(theme_file).kind = "theme"
          \/ /\ theme_call' = "False"
             /\ UNCHANGED <<custom_theme_path, dark_mode>>]_vars

\* C28: toggle_theme inverts dark_mode and leaves custom_theme_path and the
\* history unchanged; reset_theme sets custom_theme_path to None and leaves
\* dark_mode and the history unchanged; after either the text of the theme
\* button is that of dark_mode.
C28_ThemeFrames ==
    [][/\ ToggleTheme =>
             (/\ dark_mode' = ~dark_mode
              /\ UNCHANGED <<custom_theme_path, conversion_history, history_list>>
              /\ theme_button' = ButtonText(dark_mode'))
       /\ ResetTheme =>
             (/\ custom_theme_path' = NoPath
              /\ UNCHANGED <<dark_mode, conversion_history, history_list>>
              /\ theme_button' = ButtonText(dark_mode'))]_vars

\* the light mode of a window with a custom theme and a recorded conversion,
\* after a toggle_theme that returned
C28_Witness ==
    /\ theme_call = "None"
    /\ custom_theme_path = ThemePath
    /\ ~dark_mode
    /\ theme_button = "Light Mode"
    /\ conversion_history # <<>>

=============================================================================
